---------------------------- MODULE Spec2Model ----------------------------
(***************************************************************************)
(* Model of the Spark-compatible hash kernel of the ClickHouse backend     *)
(* (cpp-ch/local-engine/Functions/SparkFunctionHashingExtended.h).         *)
(*                                                                         *)
(* Representation.  A byte is a number in 0..255 and a byte span is a      *)
(* sequence of bytes in memory order.  A uint32_t is a pair <<hi, lo>> of  *)
(* 16-bit halves, value hi * 2^16 + lo, so that all arithmetic modulo      *)
(* 2^32 is computed exactly.  The executor is instantiated with            *)
(* Impl = SparkMurmurHash3_32 (ToType = UInt32).                           *)
(***************************************************************************)
EXTENDS Integers, Sequences, FiniteSets, TLC

(***************************************************************************)
(* Bounds of the model.                                                    *)
(***************************************************************************)
MaxRows == 2
MaxArgs == 2
MaxSpanLen == 5

(***************************************************************************)
(* uint32_t arithmetic.                                                    *)
(***************************************************************************)
W16 == 2^16

\* bit j of a ^ b, in place
XorBit(a, b, j) == ((((a \div (2^j)) + (b \div (2^j))) % 2) * (2^j))

\* a ^ b on 8-bit and on 16-bit operands
Xor8(a, b) ==
    ((XorBit(a, b, 0) + XorBit(a, b, 1)) + (XorBit(a, b, 2) + XorBit(a, b, 3)))
    + ((XorBit(a, b, 4) + XorBit(a, b, 5)) + (XorBit(a, b, 6) + XorBit(a, b, 7)))
Xor16(a, b) == Xor8(a % 256, b % 256) + 256 * Xor8(a \div 256, b \div 256)

\* a ^ b on uint32_t
Xor32(a, b) == <<Xor16(a[1], b[1]), Xor16(a[2], b[2])>>

\* low 16 bits of the product of two 16-bit numbers
MulLo16(x, y) == (((x % 256) * y) + (((x \div 256) * y) % 256) * 256) % W16

\* a * b on uint32_t (wraps modulo 2^32)
Mul32(a, b) ==
    LET p0 == (a[2] % 256) * b[2]
        p1 == (a[2] \div 256) * b[2]
        low == p0 + (p1 % 256) * 256
        carry == (low \div W16) + (p1 \div 256)
    IN  <<(carry + MulLo16(a[1], b[2]) + MulLo16(a[2], b[1])) % W16, low % W16>>

\* a + b on uint32_t (wraps modulo 2^32)
Add32(a, b) ==
    LET low == a[2] + b[2]
    IN  <<(a[1] + b[1] + (low \div W16)) % W16, low % W16>>

\* x >> r on uint32_t, 0 <= r < 32
Shr32(x, r) ==
    IF r >= 16 THEN <<0, x[1] \div (2^(r - 16))>>
    ELSE <<x[1] \div (2^r), ((x[1] % (2^r)) * (2^(16 - r))) + (x[2] \div (2^r))>>

\* x << r on uint32_t, 0 <= r < 32
Shl32(x, r) ==
    IF r >= 16 THEN <<(x[2] % (2^(32 - r))) * (2^(r - 16)), 0>>
    ELSE <<((x[1] % (2^(16 - r))) * (2^r)) + (x[2] \div (2^(16 - r))),
           (x[2] % (2^(16 - r))) * (2^r)>>

\* a | b for operands with no common set bit
Or32Disjoint(a, b) == <<a[1] + b[1], a[2] + b[2]>>

rotl32(x, r) == Or32Disjoint(Shl32(x, r), Shr32(x, 32 - r))

\* a size_t or a UInt64 below 2^31 truncated to uint32_t
ToU32(n) == <<(n \div W16) % W16, n % W16>>

(***************************************************************************)
(* The 32-bit primitive.                                                   *)
(***************************************************************************)
c1 == <<52382, 11601>>              \* 0xcc9e2d51
c2 == <<7047, 13715>>               \* 0x1b873593

\* the i-th (0-based) 4-byte block of the span, read by memcpy on a
\* little-endian host
getblock32(p, i) ==
    <<p[4 * i + 4] * 256 + p[4 * i + 3], p[4 * i + 2] * 256 + p[4 * i + 1]>>

\* k1 *= c1; k1 = rotl32(k1, 15); k1 *= c2;
MixK1(k1) == Mul32(rotl32(Mul32(k1, c1), 15), c2)

\* h1 ^= k1; h1 = rotl32(h1, 13); h1 = h1 * 5 + 0xe6546b64;
MixH1(h1, k1) ==
    Add32(Mul32(rotl32(Xor32(h1, k1), 13), <<0, 5>>), <<58964, 27492>>)

\* the uint32_t values
U32 == (0..(W16 - 1)) \X (0..(W16 - 1))

\* one round of the body or of the tail: k1 is mixed and folded into h1
Round[h1 \in U32, k1 \in U32] == MixH1(h1, MixK1(k1))

\* the body loop over blocks i .. nblocks-1
RECURSIVE BodyLoop(_, _, _, _)
BodyLoop(data, i, nblocks, h1) ==
    IF i = nblocks THEN h1
    ELSE BodyLoop(data, i + 1, nblocks, Round[h1, getblock32(data, i)])

\* the value assigned to k1 from one tail byte: k1 = *tail with
\* tail a const uint8_t *, i.e. the byte zero-extended
TailByte(b) == <<0, b>>

\* the tail loop over positions pos+1 .. len (1-based) of the span
RECURSIVE TailLoop(_, _, _, _)
TailLoop(data, pos, len, h1) ==
    IF pos = len THEN h1
    ELSE TailLoop(data, pos + 1, len, Round[h1, TailByte(data[pos + 1])])

\* the avalanche alone, the length left out
Finalization_NoLength(h1, len) ==
    LET b == Mul32(Xor32(h1, Shr32(h1, 16)), <<34283, 51819>>)
        c == Mul32(Xor32(b, Shr32(b, 13)), <<49842, 44597>>)
    IN  Xor32(c, Shr32(c, 16))

\* h1 ^= len and the avalanche
Finalization(h1, len) ==
    LET a == Xor32(h1, ToU32(len))
        b == Mul32(Xor32(a, Shr32(a, 16)), <<34283, 51819>>)     \* 0x85ebca6b
        c == Mul32(Xor32(b, Shr32(b, 13)), <<49842, 44597>>)     \* 0xc2b2ae35
    IN  Xor32(c, Shr32(c, 16))

SparkMurmurHash3_x86_32(key, len, seed) ==
    LET nblocks == len \div 4
    IN  Finalization(TailLoop(key, nblocks * 4, len,
                              BodyLoop(key, 0, nblocks, seed)), len)

\* SparkMurmurHash3_32::apply; the seed arrives as UInt64 and is cast to UInt32
SparkMurmurHash3_32_apply(data, size, seed) ==
    SparkMurmurHash3_x86_32(data, size, seed)


\* Impl::apply for Impl = SparkMurmurHash3_32
Impl_apply(s, len, seed) == SparkMurmurHash3_32_apply(s, len, seed)

\* applyUnsafeBytes(begin, size, seed)
applyUnsafeBytes(begin, size, seed) == Impl_apply(begin, size, seed)

(***************************************************************************)
(* Element types.  A value of a fixed-width type is the sequence of its    *)
(* sizeof(T) bytes in memory order (little-endian host).                   *)
(***************************************************************************)
IntegralTypes ==
    {"UInt8", "UInt16", "UInt32", "UInt64", "Int8", "Int16", "Int32", "Int64"}
FloatTypes == {"Float32", "Float64"}
DecimalTypes == {"Decimal32", "Decimal64", "Decimal128", "DateTime64"}

SizeOf(T) ==
    CASE T \in {"UInt8", "Int8"} -> 1
      [] T \in {"UInt16", "Int16"} -> 2
      [] T \in {"UInt32", "Int32", "Float32", "Decimal32"} -> 4
      [] T \in {"UInt64", "Int64", "Float64", "Decimal64", "DateTime64"} -> 8
      [] T = "Decimal128" -> 16

is_signed_v(T) == T \in {"Int8", "Int16", "Int32", "Int64"}

\* n copies of the byte b
Fill(b, n) == [j \in 1..n |-> b]

Reverse(s) == [j \in 1..Len(s) |-> s[Len(s) + 1 - j]]

\* the sign bit of a little-endian two's-complement value
IsNegative(bytes) == bytes[Len(bytes)] >= 128

\* conversion of a value to a wider integer type: sign extension when the
\* source is signed, zero extension otherwise
Widen(bytes, signed, width) ==
    bytes \o Fill(IF signed /\ IsNegative(bytes) THEN 255 ELSE 0, width - Len(bytes))

\* the container unsigned whatever T
IntHashPromotion_Unsigned(T) ==
    [is_signed |-> FALSE,
     size |-> IF SizeOf(T) > 4 THEN SizeOf(T) ELSE 4,
     need_promotion_v |-> SizeOf(T) < 4]

\* IntHashPromotion<T>: the container is 4 bytes wide (max(4, sizeof(T)))
\* and as signed as T; promotion is needed when sizeof(T) < 4
IntHashPromotion(T) ==
    [is_signed |-> is_signed_v(T),
     size |-> IF SizeOf(T) > 4 THEN SizeOf(T) ELSE 4,
     need_promotion_v |-> SizeOf(T) < 4]

\* no zero recognised
EqualsNegativeZero_Never(n) == FALSE

\* n == -0.0f / n == -0.0: an IEEE comparison, true of both zeros and of
\* nothing else (false of every NaN)
EqualsNegativeZero(n) ==
    /\ \A j \in 1..(Len(n) - 1) : n[j] = 0
    /\ n[Len(n)] \in {0, 128}

\* the byte span applyNumber<T> passes to Impl::apply
NumberSpan(T, n) ==
    IF T \in IntegralTypes
    THEN IF IntHashPromotion(T).need_promotion_v
         THEN Widen(n, IntHashPromotion(T).is_signed, IntHashPromotion(T).size)
         ELSE n
    ELSE IF EqualsNegativeZero(n)
         THEN Fill(0, IF T = "Float32" THEN 4 ELSE 8)   \* applyNumber<Int32/Int64>(0, seed)
         ELSE n

applyNumber(T, n, seed) ==
    Impl_apply(NumberSpan(T, n), Len(NumberSpan(T, n)), seed)

(***************************************************************************)
(* applyDecimal.  A 128-bit value is two 64-bit items, items[0] the least  *)
(* significant; an item is its 8 bytes in memory order.                    *)
(***************************************************************************)
\* leading zero bits of one byte
LeadingZeroBitsOfByte(b) ==
    CASE b >= 128 -> 0 [] b >= 64 -> 1 [] b >= 32 -> 2 [] b >= 16 -> 3
      [] b >= 8 -> 4 [] b >= 4 -> 5 [] b >= 2 -> 6 [] b >= 1 -> 7 [] OTHER -> 8

\* getLeadingZeroBits of an integer given by its little-endian bytes
\* (the bit width when the integer is 0)
RECURSIVE getLeadingZeroBits(_)
getLeadingZeroBits(item) ==
    IF Len(item) = 0 THEN 0
    ELSE IF item[Len(item)] # 0 THEN LeadingZeroBitsOfByte(item[Len(item)])
         ELSE 8 + getLeadingZeroBits(SubSeq(item, 1, Len(item) - 1))

\* ~item
Complement(item) == [j \in 1..Len(item) |-> 255 - item[j]]

\* the loop over the items, most significant first, stopping after the first
\* item that is not all leading zeros
RECURSIVE CountLeadingZeros(_, _, _)
CountLeadingZeros(items, negative, i) ==
    IF i = Len(items) THEN 0
    ELSE LET item == items[Len(items) - i]
             temp == IF negative THEN Complement(item) ELSE item
             curr_leading_zeros == getLeadingZeroBits(temp)
         IN  IF curr_leading_zeros # 64 THEN curr_leading_zeros
             ELSE curr_leading_zeros + CountLeadingZeros(items, negative, i + 1)

\* the offset as the number of whole leading bytes
DecimalOffset_LeadingBytes(total_bytes, leading_zeros) == leading_zeros \div 8

\* the offset without the byte that holds the sign bit
DecimalOffset_NoSignBit(total_bytes, leading_zeros) ==
    total_bytes - ((total_bytes * 8 - leading_zeros + 7) \div 8)

\* size_t offset = total_bytes - (total_bytes * 8 - leading_zeros + 8) / 8
DecimalOffset(total_bytes, leading_zeros) ==
    total_bytes - ((total_bytes * 8 - leading_zeros + 8) \div 8)

\* the two loops that turn the value big-endian: bswap64 of every item,
\* then the items in reverse order; the result as the bytes in memory
ToBigEndian(items) ==
    LET swapped == [j \in 1..Len(items) |-> Reverse(items[j])]
    IN  swapped[2] \o swapped[1]

\* the backing integer zero-extended
ToInt64_ZeroExtended(n) == Widen(n, FALSE, 8)

\* Int64 v = n.value, for a backing integer of at most 8 bytes
ToInt64(n) == Widen(n, TRUE, 8)

\* the byte span applyDecimal<T> passes to Impl::apply
DecimalSpan(T, n) ==
    IF SizeOf(T) <= 8
    THEN ToInt64(n)
    ELSE LET items == <<SubSeq(n, 1, 8), SubSeq(n, 9, 16)>>
             total_bytes == 16
             negative == IsNegative(n)
             leading_zeros == CountLeadingZeros(items, negative, 0)
             offset == DecimalOffset(total_bytes, leading_zeros)
             buffer == ToBigEndian(items)
         IN  SubSeq(buffer, offset + 1, 16)

applyDecimal(T, n, seed) ==
    Impl_apply(DecimalSpan(T, n), Len(DecimalSpan(T, n)), seed)

(***************************************************************************)
(* Columns.  An argument (ColumnWithTypeAndName) is a record:              *)
(*   type        name of the logical type with Nullable removed            *)
(*   is_const    the column is a ColumnConst                               *)
(*   size        column->size(), for a constant its broadcast length       *)
(*   is_nullable the (data) column is a ColumnNullable                     *)
(*   null_map    its null map (one entry for a constant), <<>> when absent *)
(*   col         the physical column below the wrappers: "Vector"          *)
(*               (ColumnVector / ColumnDecimal), "String", "FixedString",  *)
(*               or "Array"                                                *)
(*   elem        the element type of a "Vector"                            *)
(*   data        the values of a "Vector", each sizeof(elem) bytes         *)
(*   chars, offsets   the buffers of a "String" (each string is followed   *)
(*               by a terminating zero byte, offsets[i] is the end of      *)
(*               row i), chars and n those of a "FixedString"              *)
(***************************************************************************)
Column(type, is_const, size, null_map, col, elem, data, chars, offsets, n) ==
    [type |-> type, is_const |-> is_const, size |-> size,
     is_nullable |-> null_map # <<>>, null_map |-> null_map,
     col |-> col, elem |-> elem, data |-> data,
     chars |-> chars, offsets |-> offsets, n |-> n]

\* one fed entry per row: the span the last executeAny passed to Impl::apply
\* for that row, if it passed one
NotFed == [called |-> FALSE, span |-> <<>>]
Fed(span) == [called |-> TRUE, span |-> span]

\* the null map not consulted at all
NotNullAt_Always(a, i) == TRUE

\* the null map consulted for full columns only
NotNullAt_ConstantUnchecked(a, i) == ~a.is_nullable \/ a.is_const \/ a.null_map[i + 1] = 0

\* !null_map || !(*null_map)[i]   (i is 0-based)
NotNullAt(a, i) == ~a.is_nullable \/ a.null_map[i + 1] = 0

\* any vector column taken for the expected one
checkAndGetColumn_AnyVector(a, col, elem) == a.col = col

\* the element type checkAndGetColumn<ColumnVectorOrDecimal<FromType>> accepts
checkAndGetColumn(a, col, elem) == a.col = col /\ a.elem = elem

\* the span update_hash passes on for a value of FromType
UpdateSpan(FromType, value) ==
    IF FromType \in IntegralTypes \union FloatTypes
    THEN NumberSpan(FromType, value)
    ELSE DecimalSpan(FromType, value)

\* update_hash(value, to): the new value of to
update_hash(FromType, value, to) ==
    IF FromType \in IntegralTypes \union FloatTypes
    THEN applyNumber(FromType, value, to)
    ELSE applyDecimal(FromType, value, to)

\* the row whose value a routine reads for output row i (0-based): row i of
\* a full column, row 0 of the one-row column inside a constant
SourceRow(from_const, i) == IF from_const THEN 0 ELSE i

\* a constant hashed once, from the accumulator of the first row
SeedOfRow_FirstRow(from_const, vec_to, i) ==
    IF from_const THEN vec_to[1] ELSE vec_to[i + 1]

\* the row index mixed into the seed
SeedOfRow_Indexed(from_const, vec_to, i) == Add32(vec_to[i + 1], <<0, i>>)

\* the accumulator a routine seeds row i with
SeedOfRow(from_const, vec_to, i) == vec_to[i + 1]

\* the outcome of one routine: the accumulator after its loop, or the error
\* thrown before the loop
\* thrown before the loop; args are the values formatted into the message
Thrown(code, args, vec_to) ==
    [error |-> code, args |-> args, vec_to |-> vec_to,
     fed |-> [j \in 1..Len(vec_to) |-> NotFed]]

\* static constexpr auto name = Impl::name, returned by getName()
name == "sparkMurmurHash3_32"
getName == name

\* IColumn::getName() of the unwrapped data column
DataColumnName(a) == IF a.col = "Vector" THEN a.elem ELSE a.col

\* IColumn::getName() of the argument column
ColumnName(a) ==
    <<(IF a.is_const THEN "Const" ELSE ""), (IF a.is_nullable THEN "Nullable" ELSE ""),
      DataColumnName(a)>>

\* IDataType::getName() of the declared type
TypeName(a) == <<(IF a.is_nullable THEN "Nullable" ELSE ""), a.type>>

\* the rows a routine reads: one for a constant, else one per output row
SourceRows(from_const, vec_to) == IF from_const THEN 1 ELSE Len(vec_to)

\* the two loops of a routine; spans[r + 1] is the span of source row r.  A
\* full column tests the null map per row, a constant tests entry 0 once.
HashLoop(from_const, a, vec_to, spans) ==
    LET size == Len(vec_to)
        hashed(i) == NotNullAt(a, SourceRow(from_const, i))
        span(i) == spans[SourceRow(from_const, i) + 1]
    IN  [error |-> "", args |-> <<>>,
         vec_to |-> [j \in 1..size |->
                       IF hashed(j - 1)
                       THEN Impl_apply(span(j - 1), Len(span(j - 1)),
                                       SeedOfRow(from_const, vec_to, j - 1))
                       ELSE vec_to[j]],
         fed |-> [j \in 1..size |->
                       IF hashed(j - 1) THEN Fed(span(j - 1)) ELSE NotFed]]

executeNumberType(FromType, from_const, a, vec_to) ==
    IF ~checkAndGetColumn(a, "Vector", FromType)
    THEN Thrown("ILLEGAL_COLUMN", <<DataColumnName(a), getName>>, vec_to)
    ELSE HashLoop(from_const, a, vec_to,
                  [r \in 1..SourceRows(from_const, vec_to) |->
                     UpdateSpan(FromType, a.data[r])])

executeFixedString(from_const, a, vec_to) ==
    IF a.col # "FixedString"
    THEN Thrown("ILLEGAL_COLUMN", <<DataColumnName(a), getName>>, vec_to)
    ELSE HashLoop(from_const, a, vec_to,
                  [r \in 1..SourceRows(from_const, vec_to) |->
                     SubSeq(a.chars, (r - 1) * a.n + 1, (r - 1) * a.n + a.n)])

\* the running offset left where the last hashed row ended
RECURSIVE current_offset_HashedRowsOnly(_, _)
current_offset_HashedRowsOnly(a, i) ==
    IF i = 0 THEN 0
    ELSE IF NotNullAt(a, i - 1) THEN a.offsets[i]
    ELSE current_offset_HashedRowsOnly(a, i - 1)

\* current_offset at the start of iteration i (0-based) of the loop of
\* executeString: 0, then offsets[i - 1] assigned at the end of every
\* iteration
current_offset(a, i) == IF i = 0 THEN 0 ELSE a.offsets[i]

executeString(from_const, a, vec_to) ==
    IF a.col # "String"
    THEN Thrown("ILLEGAL_COLUMN", <<DataColumnName(a), getName>>, vec_to)
    ELSE HashLoop(from_const, a, vec_to,
                  [r \in 1..SourceRows(from_const, vec_to) |->
                     SubSeq(a.chars, current_offset(a, r - 1) + 1,
                            current_offset(a, r - 1)
                            + (a.offsets[r] - current_offset(a, r - 1) - 1))])

\* the FromType the dispatch chain instantiates executeNumberType with
NumberTypeOf(type) ==
    CASE type = "Date" -> "UInt16"
      [] type = "Date32" -> "Int32"
      [] type = "DateTime" -> "UInt32"
      [] OTHER -> type

\* the type dispatched before the size is looked at
executeAny_DispatchFirst(a, vec_to) ==
    IF a.type \in IntegralTypes \union FloatTypes \union DecimalTypes
                  \union {"Date", "Date32", "DateTime"}
    THEN IF a.size # Len(vec_to)
         THEN Thrown("LOGICAL_ERROR", <<ColumnName(a), a.size, Len(vec_to), getName>>, vec_to)
         ELSE executeNumberType(NumberTypeOf(a.type), a.is_const, a, vec_to)
    ELSE IF a.type \in {"String", "FixedString"}
    THEN IF a.size # Len(vec_to)
         THEN Thrown("LOGICAL_ERROR", <<ColumnName(a), a.size, Len(vec_to), getName>>, vec_to)
         ELSE IF a.type = "String" THEN executeString(a.is_const, a, vec_to)
         ELSE executeFixedString(a.is_const, a, vec_to)
    ELSE Thrown("NOT_IMPLEMENTED", <<getName, TypeName(a)>>, vec_to)

\* the dispatch chain without its branches for the date and time types
executeAny_NoDateTypes(a, vec_to) ==
    IF a.size # Len(vec_to)
    THEN Thrown("LOGICAL_ERROR", <<ColumnName(a), a.size, Len(vec_to), getName>>, vec_to)
    ELSE IF a.type \in IntegralTypes \union FloatTypes \union {"Decimal32", "Decimal64", "Decimal128"}
    THEN executeNumberType(NumberTypeOf(a.type), a.is_const, a, vec_to)
    ELSE IF a.type = "String" THEN executeString(a.is_const, a, vec_to)
    ELSE IF a.type = "FixedString" THEN executeFixedString(a.is_const, a, vec_to)
    ELSE Thrown("NOT_IMPLEMENTED", <<getName, TypeName(a)>>, vec_to)

executeAny(a, vec_to) ==
    IF a.size # Len(vec_to)
    THEN Thrown("LOGICAL_ERROR", <<ColumnName(a), a.size, Len(vec_to), getName>>, vec_to)
    ELSE IF a.type \in IntegralTypes \union FloatTypes \union DecimalTypes
                       \union {"Date", "Date32", "DateTime"}
    THEN executeNumberType(NumberTypeOf(a.type), a.is_const, a, vec_to)
    ELSE IF a.type = "String" THEN executeString(a.is_const, a, vec_to)
    ELSE IF a.type = "FixedString" THEN executeFixedString(a.is_const, a, vec_to)
    ELSE Thrown("NOT_IMPLEMENTED", <<getName, TypeName(a)>>, vec_to)

(***************************************************************************)
(* Values and argument columns the model is run on.                        *)
(***************************************************************************)
\* the 4-byte little-endian image of a small natural number
Int32Of(x) == <<x % 256, x \div 256, 0, 0>>

NoBytes == <<>>

\* row i (1-based) of the String columns: i copies of the letter 96 + i
\* ("a", "bb", ...), each followed by its terminating zero
RECURSIVE StringChars(_)
StringChars(rows) ==
    IF rows = 0 THEN <<>>
    ELSE StringChars(rows - 1) \o Fill(96 + rows, rows) \o <<0>>
StringOffsets(rows) == [j \in 1..rows |-> (j * (j + 1)) \div 2 + j]

\* a String column holding "zz" in every row
RECURSIVE RepeatedChars(_)
RepeatedChars(rows) ==
    IF rows = 0 THEN <<>> ELSE RepeatedChars(rows - 1) \o <<122, 122, 0>>
RepeatedOffsets(rows) == [j \in 1..rows |-> 3 * j]

\* row i of the FixedString(2) columns: the bytes 128 + i, i
RECURSIVE FixedChars(_)
FixedChars(rows) ==
    IF rows = 0 THEN <<>> ELSE FixedChars(rows - 1) \o <<128 + rows, rows>>

\* the argument columns a call over N rows draws from
ArgumentUniverse(N) ==
    { \* Int32 [1, 2, ...]
      Column("Int32", FALSE, N, <<>>, "Vector", "Int32",
             [j \in 1..N |-> Int32Of(j)], NoBytes, <<>>, 0),
      \* Nullable(Int8) [NULL, -2, NULL, ...]
      Column("Int8", FALSE, N, [j \in 1..N |-> j % 2], "Vector", "Int8",
             [j \in 1..N |-> <<256 - j>>], NoBytes, <<>>, 0),
      \* Nullable(String) [NULL, "bb", NULL, ...]; the null rows hold "a", "ccc", ...
      Column("String", FALSE, N, [j \in 1..N |-> j % 2], "String", "",
             <<>>, StringChars(N), StringOffsets(N), 0),
      \* Nullable(FixedString(2)) [x, NULL, x, ...]
      Column("FixedString", FALSE, N, [j \in 1..N |-> 1 - (j % 2)], "FixedString", "",
             <<>>, FixedChars(N), <<>>, 2),
      \* String ["zz", "zz", ...]
      Column("String", FALSE, N, <<>>, "String", "",
             <<>>, RepeatedChars(N), RepeatedOffsets(N), 0),
      \* constant String "abc"
      Column("String", TRUE, N, <<>>, "String", "",
             <<>>, <<97, 98, 99, 0>>, <<4>>, 0),
      \* constant Nullable(Int32) NULL
      Column("Int32", TRUE, N, <<1>>, "Vector", "Int32",
             <<Int32Of(0)>>, NoBytes, <<>>, 0),
      \* constant Nullable(Decimal128) 128
      Column("Decimal128", TRUE, N, <<0>>, "Vector", "Decimal128",
             <<(<<128>> \o Fill(0, 15))>>, NoBytes, <<>>, 0),
      \* Array(Int32), a type without a routine
      Column("Array", FALSE, N, <<>>, "Array", "",
             <<>>, NoBytes, <<>>, 0),
      \* Int32 of one row too many
      Column("Int32", FALSE, N + 1, <<>>, "Vector", "Int32",
             [j \in 1..(N + 1) |-> Int32Of(j)], NoBytes, <<>>, 0),
      \* declared Int32 over a String column
      Column("Int32", FALSE, N, <<>>, "String", "",
             <<>>, StringChars(N), StringOffsets(N), 0) }

ArgumentLists(N) ==
    UNION { [1..m -> ArgumentUniverse(N)] : m \in 0..MaxArgs }

(***************************************************************************)
(* The function framework.                                                 *)
(***************************************************************************)
\* SparkFunctionAnyHash::useDefaultImplementationForNulls() returns true
useDefaultImplementationForNulls == TRUE

\* With the default implementation for nulls the framework runs executeImpl
\* on the nested columns of the Nullable arguments ...
NestedColumn(a) == [a EXCEPT !.is_nullable = FALSE, !.null_map = <<>>]
createBlockWithNestedColumns(args) == [k \in 1..Len(args) |-> NestedColumn(args[k])]

\* ... and wraps the result in a Nullable column whose rows are null where
\* any argument is null
IsNullIn(a, i) == a.is_nullable /\ a.null_map[IF a.is_const THEN 1 ELSE i] = 1
wrapInNullable(args, N) ==
    [j \in 1..N |-> \E k \in 1..Len(args) : args[k].size = N /\ IsNullIn(args[k], j)]

hasNullable(args) == \E k \in 1..Len(args) : args[k].is_nullable

(***************************************************************************)
(* One call.                                                               *)
(*   columns      the arguments the caller passes                          *)
(*   entry        "executeImpl": the caller invokes executeImpl itself;    *)
(*                "execute": the call comes through the function framework *)
(*   arguments, input_rows_count   the parameters of executeImpl           *)
(*   vec_to       the accumulator col_to->getData()                        *)
(*   arg_i        the loop index i of executeImpl                          *)
(*   pc           "call", "fold", "returned", "thrown"                     *)
(*   hist         hist[k + 1] is vec_to after k arguments were folded      *)
(*   fed          the spans the last executeAny passed to Impl::apply      *)
(*   result       the column the caller receives                           *)
(*   error        the error code the call threw                            *)
(***************************************************************************)
VARIABLES columns, entry, arguments, input_rows_count, vec_to, arg_i, pc,
          hist, fed, result, error,
          fn_in, fn_out,
          selector, threads,
          listener, explain

vars == <<columns, entry, arguments, input_rows_count, vec_to, arg_i, pc,
          hist, fed, result, error, fn_in, fn_out, selector, threads,
          listener, explain>>

\* the selector of an executor instance and the calls running on it
instanceVars == <<selector, threads>>

\* no reservation listener and no plan is looked at
NoListener == listener = [open |-> FALSE]
NoPlan == explain = [pc |-> "none"]

\* no executor instance is looked at (the specifications of one call and of
\* the single functions)
NoInstance ==
    /\ selector = [implementations |-> {}]
    /\ threads = <<>>
    /\ NoListener
    /\ NoPlan

callVars == <<columns, entry, arguments, input_rows_count, vec_to, arg_i, pc,
              hist, fed, result, error>>

\* the accumulator filled with 0, the seed of ClickHouse's own hash functions
InitialSeed_Zero == <<0, 0>>

\* /// Initial seed is always 42
InitialSeed == <<0, 42>>

NoResult == [returned |-> FALSE, data |-> <<>>, null_map |-> <<>>]
NoFn == [fn |-> "none"]

InitCall(cols, e, N) ==
    /\ columns = cols
    /\ entry = e
    /\ input_rows_count = N
    /\ arguments = <<>>
    /\ vec_to = <<>>
    /\ arg_i = 0
    /\ pc = "call"
    /\ hist = <<>>
    /\ fed = <<>>
    /\ result = NoResult
    /\ error = ""

\* no call is under way (the specifications of the single functions)
NoCall ==
    /\ columns = <<>>
    /\ entry = "none"
    /\ input_rows_count = 0
    /\ arguments = <<>>
    /\ vec_to = <<>>
    /\ arg_i = 0
    /\ pc = "idle"
    /\ hist = <<>>
    /\ fed = <<>>
    /\ result = NoResult
    /\ error = ""

Init ==
    /\ \E N \in 0..MaxRows : \E cols \in ArgumentLists(N) :
          \E e \in {"executeImpl", "execute"} : InitCall(cols, e, N)
    /\ fn_in = NoFn
    /\ fn_out = NoFn
    /\ NoInstance

\* whether this call runs on the nested columns and has its result wrapped
Wrapped == entry = "execute" /\ useDefaultImplementationForNulls /\ hasNullable(columns)

\* The call enters executeImpl: the accumulator is created and filled
Call ==
    /\ pc = "call"
    /\ arguments' = IF Wrapped THEN createBlockWithNestedColumns(columns) ELSE columns
    /\ vec_to' = [j \in 1..input_rows_count |-> InitialSeed]
    /\ hist' = <<[j \in 1..input_rows_count |-> InitialSeed]>>
    /\ fed' = [j \in 1..input_rows_count |-> NotFed]
    /\ arg_i' = 0
    /\ pc' = "fold"
    /\ UNCHANGED <<columns, entry, input_rows_count, result, error, fn_in, fn_out, instanceVars, listener, explain>>

\* One iteration of the loop over the arguments: executeForArgument returns
FoldArgument ==
    /\ pc = "fold"
    /\ arg_i < Len(arguments)
    /\ LET r == executeAny(arguments[arg_i + 1], vec_to)
       IN  /\ r.error = ""
           /\ vec_to' = r.vec_to
           /\ fed' = r.fed
           /\ hist' = Append(hist, r.vec_to)
    /\ arg_i' = arg_i + 1
    /\ UNCHANGED <<columns, entry, arguments, input_rows_count, pc, result, error,
                   fn_in, fn_out, instanceVars, listener, explain>>

\* One iteration of the loop over the arguments: executeForArgument throws;
\* the exception leaves executeImpl and col_to is destroyed
FoldArgumentThrows ==
    /\ pc = "fold"
    /\ arg_i < Len(arguments)
    /\ LET r == executeAny(arguments[arg_i + 1], vec_to)
       IN  /\ r.error # ""
           /\ error' = r.error
    /\ pc' = "thrown"
    /\ UNCHANGED <<columns, entry, arguments, input_rows_count, vec_to, arg_i, hist,
                   fed, result, fn_in, fn_out, instanceVars, listener, explain>>

\* return col_to, wrapped by the framework when it ran the nested columns
Return ==
    /\ pc = "fold"
    /\ arg_i = Len(arguments)
    /\ result' = [returned |-> TRUE, data |-> vec_to,
                  null_map |-> IF Wrapped THEN wrapInNullable(columns, input_rows_count)
                               ELSE <<>>]
    /\ pc' = "returned"
    /\ UNCHANGED <<columns, entry, arguments, input_rows_count, vec_to, arg_i, hist,
                   fed, error, fn_in, fn_out, instanceVars, listener, explain>>

Next == Call \/ FoldArgument \/ FoldArgumentThrows \/ Return

Spec == Init /\ [][Next]_vars

(***************************************************************************)
(* The functions on their own: fn_in is a function with its inputs,        *)
(* fn_out its result once it was applied.                                  *)
(***************************************************************************)
MaxPatternLen == 2

ByteChoices == {0, 1, 127, 128, 255}
Seeds == {InitialSeed, <<0, 0>>, <<57005, 48879>>}

\* byte spans of exactly / at most n bytes
SpansOfLen(n) == [1..n -> ByteChoices]
SpansUpTo(n) == UNION { SpansOfLen(m) : m \in 0..n }

\* values of a type of w bytes: a short pattern above z filler bytes, sign-
\* or zero-extended to the width, and the values with nothing but sign bits
ValuesOfWidth(w) ==
    { SubSeq(Widen(Fill(f, z) \o p, s, w + MaxPatternLen), 1, w) :
        z \in 0..(w - 1), f \in {0, 255}, s \in BOOLEAN,
        p \in UNION { SpansOfLen(m) : m \in 1..MaxPatternLen } }
    \union { [j \in 1..w |-> IF j \in S THEN 128 ELSE 0] : S \in SUBSET ((w - 3)..w) }

(***************************************************************************)
(* SparkMurmurHash3_32::apply                                              *)
(***************************************************************************)
InitHash ==
    /\ NoCall
    /\ \E key \in SpansUpTo(MaxSpanLen) : \E seed \in Seeds :
          fn_in = [fn |-> "hash32", key |-> key, len |-> Len(key), seed |-> seed]
    /\ fn_out = NoFn
    /\ NoInstance

Hash32 ==
    /\ fn_in.fn = "hash32"
    /\ fn_out = NoFn
    /\ fn_out' = [fn |-> "hash32",
                  h |-> SparkMurmurHash3_32_apply(fn_in.key, fn_in.len, fn_in.seed)]
    /\ UNCHANGED <<callVars, fn_in, instanceVars, listener, explain>>

NextHash == Hash32

SpecHash == InitHash /\ [][NextHash]_vars

(***************************************************************************)
(* applyNumber<T>                                                          *)
(***************************************************************************)
InitNumber ==
    /\ NoCall
    /\ \E T \in IntegralTypes \union FloatTypes : \E n \in ValuesOfWidth(SizeOf(T)) :
          \E seed \in Seeds :
             fn_in = [fn |-> "applyNumber", T |-> T, n |-> n, seed |-> seed]
    /\ fn_out = NoFn
    /\ NoInstance

ApplyNumber ==
    /\ fn_in.fn = "applyNumber"
    /\ fn_out = NoFn
    /\ fn_out' = [fn |-> "applyNumber",
                  span |-> NumberSpan(fn_in.T, fn_in.n),
                  h |-> applyNumber(fn_in.T, fn_in.n, fn_in.seed)]
    /\ UNCHANGED <<callVars, fn_in, instanceVars, listener, explain>>

NextNumber == ApplyNumber

SpecNumber == InitNumber /\ [][NextNumber]_vars

(***************************************************************************)
(* applyDecimal<T>                                                         *)
(***************************************************************************)
InitDecimal ==
    /\ NoCall
    /\ \E T \in DecimalTypes : \E n \in ValuesOfWidth(SizeOf(T)) :
          \E seed \in {InitialSeed} :
             fn_in = [fn |-> "applyDecimal", T |-> T, n |-> n, seed |-> seed]
    /\ fn_out = NoFn
    /\ NoInstance

ApplyDecimal ==
    /\ fn_in.fn = "applyDecimal"
    /\ fn_out = NoFn
    /\ fn_out' = [fn |-> "applyDecimal",
                  span |-> DecimalSpan(fn_in.T, fn_in.n),
                  h |-> applyDecimal(fn_in.T, fn_in.n, fn_in.seed)]
    /\ UNCHANGED <<callVars, fn_in, instanceVars, listener, explain>>

NextDecimal == ApplyDecimal

SpecDecimal == InitDecimal /\ [][NextDecimal]_vars

(***************************************************************************)
(* An executor instance: the selector wrapper and the calls that run on    *)
(* it at the same time.  A call is a record                                *)
(*   columns, input_rows_count   the parameters of executeImpl             *)
(*   tier      the implementation the selector runs for the call           *)
(*   vec_to    the accumulator of the call, col_to->getData()              *)
(*   i, row    the argument being folded and the next row of its loop      *)
(*   pc        "idle", "fold", "returned", "thrown"                        *)
(*   result, error   the column returned, the error thrown                 *)
(***************************************************************************)
Threads == {1, 2}

\* the implementations the constructor registers: the baseline always, the
\* AVX2 and AVX512F ones in a build with USE_MULTITARGET_CODE
registerImplementations(USE_MULTITARGET_CODE) ==
    {"Default"} \union (IF USE_MULTITARGET_CODE THEN {"AVX2", "AVX512F"} ELSE {})

\* the calls made on the instance: over a Nullable(String) column and a
\* constant, and over a good column followed by an argument that fails
ConcurrentCalls(N) ==
    LET nullable_string == Column("String", FALSE, N, [j \in 1..N |-> j % 2], "String", "",
                                  <<>>, StringChars(N), StringOffsets(N), 0)
        constant == Column("String", TRUE, N, <<>>, "String", "",
                           <<>>, <<97, 98, 99, 0>>, <<4>>, 0)
        array == Column("Array", FALSE, N, <<>>, "Array", "", <<>>, NoBytes, <<>>, 0)
        too_long == Column("Int32", FALSE, N + 1, <<>>, "Vector", "Int32",
                           [j \in 1..(N + 1) |-> Int32Of(j)], NoBytes, <<>>, 0)
        not_a_vector == Column("Int32", FALSE, N, <<>>, "String", "",
                               <<>>, StringChars(N), StringOffsets(N), 0)
    IN  { <<nullable_string, constant>>, <<constant, nullable_string>>, <<constant>>,
          <<nullable_string, array>>, <<constant, too_long>>,
          <<nullable_string, not_a_vector>> }

IdleCall(cols, N) ==
    [columns |-> cols, input_rows_count |-> N, tier |-> "none", vec_to |-> <<>>,
     i |-> 0, row |-> 0, pc |-> "idle", result |-> NoResult, error |-> ""]

InitInstance ==
    /\ NoCall
    /\ NoListener
    /\ NoPlan
    /\ fn_in = NoFn
    /\ fn_out = NoFn
    /\ \E USE_MULTITARGET_CODE \in BOOLEAN :
          selector = [implementations |-> registerImplementations(USE_MULTITARGET_CODE)]
    /\ \E N \in 1..MaxRows :
          threads \in [Threads -> {IdleCall(cols, N) : cols \in ConcurrentCalls(N)}]

\* the row the routine of argument a writes in iteration i (0-based) of its
\* loop, as compiled for a tier: the tiers are the one class body compiled
\* once per target
TargetSpecificUpdate_AVX2Differs(tier, a, acc, i) ==
    IF tier = "AVX2" THEN Add32(executeAny(a, acc).vec_to[i + 1], <<0, 1>>)
    ELSE executeAny(a, acc).vec_to[i + 1]

TargetSpecificUpdate(tier, a, acc, i) == executeAny(a, acc).vec_to[i + 1]

\* an iteration of a loop writing the row into the accumulator of every
\* call
UpdateRow_SharedBuffer(ths, t) ==
    LET th == ths[t]
        new == TargetSpecificUpdate(th.tier, th.columns[th.i + 1], th.vec_to, th.row)
    IN  [u \in Threads |->
           IF u = t THEN [th EXCEPT !.vec_to[th.row + 1] = new, !.row = th.row + 1]
           ELSE IF ths[u].pc = "fold" /\ th.row < Len(ths[u].vec_to)
                THEN [ths[u] EXCEPT !.vec_to[th.row + 1] = new]
                ELSE ths[u]]

\* an iteration of a loop of call t: vec_to[row] of that call is written
UpdateRow(ths, t) ==
    LET th == ths[t]
        new == TargetSpecificUpdate(th.tier, th.columns[th.i + 1], th.vec_to, th.row)
    IN  [ths EXCEPT ![t] = [th EXCEPT !.vec_to[th.row + 1] = new, !.row = th.row + 1]]

\* the exception leaves executeImpl with the accumulator handed over
Unwound_PartialColumn(th, code) ==
    [th EXCEPT !.pc = "thrown", !.error = code,
               !.result = [returned |-> TRUE, data |-> th.vec_to, null_map |-> <<>>]]

\* the exception leaves executeImpl: col_to is destroyed with the frame
Unwound(th, code) == [th EXCEPT !.pc = "thrown", !.error = code]

\* selector.selectAndExecute runs one of the registered implementations,
\* whose executeImpl creates the accumulator and fills it with 42
SelectAndExecute(t) ==
    /\ threads[t].pc = "idle"
    /\ \E tier \in selector.implementations :
          threads' = [threads EXCEPT ![t] =
                         [@ EXCEPT !.tier = tier, !.pc = "fold",
                                   !.vec_to = [j \in 1..threads[t].input_rows_count |-> InitialSeed]]]
    /\ UNCHANGED <<callVars, fn_in, fn_out, selector, listener, explain>>

\* executeForArgument throws on one of its checks, before its loop
ArgumentThrows(t) ==
    /\ threads[t].pc = "fold"
    /\ threads[t].i < Len(threads[t].columns)
    /\ threads[t].row = 0
    /\ LET r == executeAny(threads[t].columns[threads[t].i + 1], threads[t].vec_to)
       IN  /\ r.error # ""
           /\ threads' = [threads EXCEPT ![t] = Unwound(@, r.error)]
    /\ UNCHANGED <<callVars, fn_in, fn_out, selector, listener, explain>>

\* one iteration of the loop over the rows
RowStep(t) ==
    /\ threads[t].pc = "fold"
    /\ threads[t].i < Len(threads[t].columns)
    /\ threads[t].row < threads[t].input_rows_count
    /\ executeAny(threads[t].columns[threads[t].i + 1], threads[t].vec_to).error = ""
    /\ threads' = UpdateRow(threads, t)
    /\ UNCHANGED <<callVars, fn_in, fn_out, selector, listener, explain>>

\* the loop is over: executeForArgument returns, executeImpl goes on to the
\* next argument
ArgumentDone(t) ==
    /\ threads[t].pc = "fold"
    /\ threads[t].i < Len(threads[t].columns)
    /\ threads[t].row = threads[t].input_rows_count
    /\ threads' = [threads EXCEPT ![t] = [@ EXCEPT !.i = @ + 1, !.row = 0]]
    /\ UNCHANGED <<callVars, fn_in, fn_out, selector, listener, explain>>

\* return col_to
CallReturns(t) ==
    /\ threads[t].pc = "fold"
    /\ threads[t].i = Len(threads[t].columns)
    /\ threads' = [threads EXCEPT ![t] =
                      [@ EXCEPT !.pc = "returned",
                                !.result = [returned |-> TRUE, data |-> threads[t].vec_to,
                                            null_map |-> <<>>]]]
    /\ UNCHANGED <<callVars, fn_in, fn_out, selector, listener, explain>>

NextInstance ==
    \E t \in Threads :
        \/ SelectAndExecute(t)
        \/ ArgumentThrows(t)
        \/ RowStep(t)
        \/ ArgumentDone(t)
        \/ CallReturns(t)

SpecInstance == InitInstance /\ [][NextInstance]_vars

\* executeImpl run on its own, from argument k on: the column it returns or
\* the error it throws
RECURSIVE executeImplFrom(_, _, _)
executeImplFrom(cols, k, acc) ==
    IF k > Len(cols) THEN [error |-> "", data |-> acc]
    ELSE LET r == executeAny(cols[k], acc)
         IN  IF r.error # "" THEN [error |-> r.error, data |-> <<>>]
             ELSE executeImplFrom(cols, k + 1, r.vec_to)

executeImpl(cols, N) == executeImplFrom(cols, 1, [j \in 1..N |-> InitialSeed])

\* C12: when folding an argument fails the call returns no column: the
\* values earlier arguments left in the accumulator of the call are not
\* handed to the caller, the input columns are as they were, and the
\* selector of the instance is as it was.
C12_NoPartialCommit ==
    [][\A t \in Threads :
          threads'[t].pc = "thrown" =>
             /\ threads'[t].result = NoResult
             /\ ~threads'[t].result.returned
             /\ threads'[t].error \in {"NOT_IMPLEMENTED", "ILLEGAL_COLUMN", "LOGICAL_ERROR"}
             /\ threads'[t].columns = threads[t].columns
             /\ selector' = selector]_vars

\* a call failed at its second argument after its first had changed the
\* accumulator
C12_Witness ==
    \E t \in Threads :
        /\ threads[t].pc = "thrown"
        /\ threads[t].i = 1
        /\ threads[t].error = "ILLEGAL_COLUMN"
        /\ \E j \in 1..threads[t].input_rows_count : threads[t].vec_to[j] # InitialSeed
        /\ ~threads[t].result.returned

\* C17: calls that run at the same time on one instance, their row steps
\* interleaved in any order, each return the column, or throw the error,
\* that the call gives when it runs alone.
C17_AsIfAlone ==
    \A t \in Threads :
        LET alone == executeImpl(threads[t].columns, threads[t].input_rows_count)
        IN  /\ threads[t].pc = "returned" =>
                  alone.error = "" /\ threads[t].result.data = alone.data
            /\ threads[t].pc = "thrown" => alone.error = threads[t].error

\* one call returned while the other, over other columns, was in the middle
\* of a loop
C17_Witness ==
    /\ threads[1].pc = "returned"
    /\ threads[1].input_rows_count = 2
    /\ Len(threads[1].columns) = 2
    /\ threads[2].pc = "fold"
    /\ threads[2].row = 1
    /\ threads[2].columns # threads[1].columns
    /\ threads[2].vec_to[1] # InitialSeed

ArgIsNull(a, i) ==
    /\ a.null_map # <<>>
    /\ a.null_map[IF a.is_const THEN 1 ELSE i] = 1

(***************************************************************************)
(* executeAny on one argument: fn_in is the argument column and the        *)
(* accumulator of the call, fn_out what executeAny leaves or throws.       *)
(***************************************************************************)
\* logical types without a branch in the dispatch chain
OtherTypes == {"Array", "Tuple", "Map", "Decimal256", "UUID"}

LogicalTypes ==
    IntegralTypes \union FloatTypes \union DecimalTypes
    \union {"Date", "Date32", "DateTime", "String", "FixedString"} \union OtherTypes

\* the column a well-formed argument of a logical type is stored in
ColumnOfType(type) ==
    CASE type \in {"String", "FixedString"} -> <<type, "">>
      [] type \in OtherTypes -> <<type, "">>
      [] OTHER -> <<"Vector", NumberTypeOf(type)>>

\* columns an ill-formed argument may be stored in
OtherColumns ==
    {<<"Vector", "Int32">>, <<"Vector", "UInt32">>, <<"Vector", "Decimal64">>,
     <<"Vector", "DateTime64">>, <<"String", "">>, <<"FixedString", "">>}

\* row j of a vector column of elem: the byte 128 + j above j in every
\* lower byte
VectorData(elem, rows) ==
    [j \in 1..rows |-> Fill(j, SizeOf(elem) - 1) \o <<128 + j>>]

\* an argument of a logical type stored in the column physical = <<col, elem>>;
\* nulls = 0: not nullable, 1: rows 1, 3, .. null, 2: rows 2, 4, .. null
AnyColumn(type, physical, is_const, nulls, size) ==
    LET rows == IF is_const THEN 1 ELSE size
    IN  Column(type, is_const, size,
               IF nulls = 0 THEN <<>> ELSE [j \in 1..rows |-> (j + nulls + 1) % 2],
               physical[1], physical[2],
               IF physical[1] = "Vector" THEN VectorData(physical[2], rows) ELSE <<>>,
               CASE physical[1] = "String" -> StringChars(rows)
                 [] physical[1] = "FixedString" -> FixedChars(rows)
                 [] OTHER -> NoBytes,
               IF physical[1] = "String" THEN StringOffsets(rows) ELSE <<>>,
               IF physical[1] = "FixedString" THEN 2 ELSE 0)

\* the accumulator as earlier arguments may have left it: a value per row
SomeAccumulator(N) == [j \in 1..N |-> <<0, 41 + j>>]

InitAny ==
    /\ NoCall
    /\ \E N \in 0..MaxRows : \E type \in LogicalTypes :
          \E physical \in {ColumnOfType(type)} \union OtherColumns :
             \E is_const \in BOOLEAN : \E nulls \in 0..2 :
                \E size \in {m \in (N - 1)..(N + 1) : m >= IF nulls = 0 THEN 0 ELSE 1} :
                   fn_in = [fn |-> "executeAny",
                            a |-> AnyColumn(type, physical, is_const, nulls, size),
                            vec_to |-> SomeAccumulator(N)]
    /\ fn_out = NoFn
    /\ NoInstance

ExecuteAny ==
    /\ fn_in.fn = "executeAny"
    /\ fn_out = NoFn
    /\ LET r == executeAny(fn_in.a, fn_in.vec_to)
       IN  fn_out' = [fn |-> "executeAny", error |-> r.error, args |-> r.args,
                      vec_to |-> r.vec_to, fed |-> r.fed]
    /\ UNCHANGED <<callVars, fn_in, instanceVars, listener, explain>>

NextAny == ExecuteAny

SpecAny == InitAny /\ [][NextAny]_vars

\* no row of the accumulator was updated and no span went to the primitive
NoRowTouched ==
    /\ fn_out.vec_to = fn_in.vec_to
    /\ \A j \in 1..Len(fn_out.fed) : ~fn_out.fed[j].called

ElementsOf(seq) == {seq[j] : j \in 1..Len(seq)}

\* C13: an argument whose column size (the broadcast length of a constant)
\* differs from the row count fails with a logic error whatever its type and
\* column, the size being checked before the type is dispatched, and it
\* changes no accumulator row.
C13_SizeCheckedFirst ==
    (fn_out.fn = "executeAny" /\ fn_in.a.size # Len(fn_in.vec_to)) =>
        /\ fn_out.error = "LOGICAL_ERROR"
        /\ NoRowTouched

\* a constant of a type without a routine, broadcast to the wrong length,
\* reported the size mismatch
C13_Witness ==
    /\ fn_out.fn = "executeAny"
    /\ fn_in.a.type = "Array"
    /\ fn_in.a.is_const
    /\ fn_in.a.size = Len(fn_in.vec_to) + 1
    /\ Len(fn_in.vec_to) > 0
    /\ fn_out.error = "LOGICAL_ERROR"

\* the logical types that have a hashing routine
ListedTypes ==
    {"UInt8", "UInt16", "UInt32", "UInt64", "Int8", "Int16", "Int32", "Int64",
     "Float32", "Float64", "Date", "Date32", "DateTime", "DateTime64",
     "Decimal32", "Decimal64", "Decimal128", "String", "FixedString"}

\* C14: an argument of the right size whose logical type is not one of the
\* listed types fails with a not-implemented error that carries the function
\* name and the type name; an argument of a listed type never raises that
\* error, and stored in the column of its type it is hashed by a routine.
C14_NotImplementedForOtherTypes ==
    fn_out.fn = "executeAny" =>
        /\ (fn_in.a.size = Len(fn_in.vec_to) /\ fn_in.a.type \notin ListedTypes) =>
              /\ fn_out.error = "NOT_IMPLEMENTED"
              /\ "sparkMurmurHash3_32" \in ElementsOf(fn_out.args)
              /\ \E x \in ElementsOf(fn_out.args) : fn_in.a.type \in ElementsOf(x)
              /\ NoRowTouched
        /\ fn_in.a.type \in ListedTypes =>
              /\ fn_out.error # "NOT_IMPLEMENTED"
              /\ (/\ fn_in.a.size = Len(fn_in.vec_to)
                  /\ <<fn_in.a.col, fn_in.a.elem>> = ColumnOfType(fn_in.a.type)) =>
                    /\ fn_out.error = ""
                    /\ \A j \in 1..Len(fn_in.vec_to) :
                          fn_out.fed[j].called = ~ArgIsNull(fn_in.a, j)

\* a Nullable(Map) column of the right size was refused
C14_Witness ==
    /\ fn_out.fn = "executeAny"
    /\ Len(fn_in.vec_to) = 2
    /\ fn_in.a.size = 2
    /\ fn_in.a.type = "Map"
    /\ fn_in.a.is_nullable
    /\ fn_out.error = "NOT_IMPLEMENTED"
    /\ fn_out.args = <<"sparkMurmurHash3_32", <<"Nullable", "Map">>>>

\* the column encoding the routine of a listed type expects
ExpectedEncoding(type) ==
    CASE type = "String" -> <<"String", "">>
      [] type = "FixedString" -> <<"FixedString", "">>
      [] type = "Date" -> <<"Vector", "UInt16">>
      [] type = "Date32" -> <<"Vector", "Int32">>
      [] type = "DateTime" -> <<"Vector", "UInt32">>
      [] OTHER -> <<"Vector", type>>

\* C15: an argument of a listed type whose column, with the constant and
\* nullable wrappers removed, is not the encoding the routine of the type
\* expects fails with an illegal-column error and no accumulator row is
\* updated; a value is hashed only by the routine of its own encoding.
C15_IllegalColumn ==
    (/\ fn_out.fn = "executeAny"
     /\ fn_in.a.size = Len(fn_in.vec_to)
     /\ fn_in.a.type \in ListedTypes) =>
        /\ <<fn_in.a.col, fn_in.a.elem>> # ExpectedEncoding(fn_in.a.type) =>
              /\ fn_out.error = "ILLEGAL_COLUMN"
              /\ NoRowTouched
        /\ (\E j \in 1..Len(fn_out.fed) : fn_out.fed[j].called) =>
              <<fn_in.a.col, fn_in.a.elem>> = ExpectedEncoding(fn_in.a.type)

\* a declared Int32 over a UInt32 vector, wrapped as a nullable constant
\* with rows to update, was refused
C15_Witness ==
    /\ fn_out.fn = "executeAny"
    /\ fn_in.a.type = "Int32"
    /\ fn_in.a.col = "Vector"
    /\ fn_in.a.elem = "UInt32"
    /\ fn_in.a.is_const
    /\ fn_in.a.is_nullable
    /\ fn_in.a.null_map = <<0>>
    /\ fn_in.a.size = 2
    /\ Len(fn_in.vec_to) = 2
    /\ fn_out.error = "ILLEGAL_COLUMN"

\* the bytes of row i (1-based) of argument a that are hashed
RowBytes(a, i) ==
    LET r == IF a.is_const THEN 1 ELSE i
    IN  CASE a.col = "Vector" -> UpdateSpan(a.elem, a.data[r])
          [] a.col = "FixedString" -> [j \in 1..a.n |-> a.chars[(r - 1) * a.n + j]]
          [] a.col = "String" ->
               LET from == IF r = 1 THEN 0 ELSE a.offsets[r - 1]
               IN  [j \in 1..(a.offsets[r] - 1 - from) |-> a.chars[from + j]]

\* the hash primitive applied to a whole span
H(bytes, acc) == Impl_apply(bytes, Len(bytes), acc)

\* the left-to-right fold over the first k arguments at row i, from 42
RECURSIVE FoldFrom42(_, _, _)
FoldFrom42(args, k, i) ==
    IF k = 0 THEN <<0, 42>>
    ELSE IF ArgIsNull(args[k], i) THEN FoldFrom42(args, k - 1, i)
         ELSE H(RowBytes(args[k], i), FoldFrom42(args, k - 1, i))

\* the arguments folded so far
Folded == IF pc \in {"fold", "returned", "thrown"} THEN 1..arg_i ELSE {}
Rows == 1..input_rows_count

\* C1: a call that returns yields exactly N values, row i being the
\* left-to-right fold over the arguments from 42 (a null argument keeps the
\* accumulator); a call without arguments does not fail and yields 42 in
\* every row.
C1_FoldFrom42 ==
    /\ pc = "returned" =>
          /\ result.returned
          /\ Len(result.data) = input_rows_count
          /\ \A i \in Rows :
                result.data[i] = FoldFrom42(arguments, Len(arguments), i)
    /\ (Len(columns) = 0 /\ pc # "call") =>
          /\ pc # "thrown"
          /\ \A i \in Rows : vec_to[i] = <<0, 42>>

\* a call of two arguments over two rows has returned, an argument being
\* null at one row and not at the other
C1_Witness ==
    /\ pc = "returned"
    /\ entry = "executeImpl"
    /\ input_rows_count = 2
    /\ Len(arguments) = 2
    /\ \E k \in 1..2 : ArgIsNull(arguments[k], 1) /\ ~ArgIsNull(arguments[k], 2)
    /\ result.data[1] # result.data[2]

\* C2: folding argument k leaves every row where argument k is null at its
\* value after argument k-1 (42 for the first argument), in all three
\* routines, and hashes every other row as if there were no null.
C2_NullKeepsAccumulator ==
    \A k \in Folded : \A i \in Rows :
        LET a == arguments[k]
        IN  IF ArgIsNull(a, i)
            THEN /\ hist[k + 1][i] = hist[k][i]
                 /\ k = 1 => hist[k + 1][i] = <<0, 42>>
            ELSE hist[k + 1][i] = H(RowBytes(a, i), hist[k][i])

\* a String column with a null first row and a non-null second row has
\* been folded after a column that hashed both rows
C2_Witness ==
    /\ pc = "fold"
    /\ arg_i = 2
    /\ input_rows_count = 2
    /\ arguments[2].col = "String"
    /\ ~arguments[2].is_const
    /\ ArgIsNull(arguments[2], 1)
    /\ ~ArgIsNull(arguments[2], 2)
    /\ hist[2][1] # <<0, 42>>
    /\ hist[3][1] = hist[2][1]
    /\ hist[3][2] # hist[2][2]

\* C3: the column a caller receives is never null at any row, the null
\* arguments being handled by the function itself and not propagated by the
\* framework.
C3_ResultNeverNull ==
    pc = "returned" =>
        /\ Len(result.data) = input_rows_count
        /\ \A i \in Rows : result.null_map = <<>> \/ ~result.null_map[i]

\* the same column with its one value written out in every row
Expanded(a) ==
    LET N == a.size
    IN  [a EXCEPT
           !.is_const = FALSE,
           !.null_map = IF a.null_map = <<>> THEN <<>> ELSE [j \in 1..N |-> a.null_map[1]],
           !.data = IF a.col = "Vector" THEN [j \in 1..N |-> a.data[1]] ELSE <<>>,
           !.chars = CASE a.col = "String" ->
                            [j \in 1..(N * a.offsets[1]) |->
                                a.chars[((j - 1) % a.offsets[1]) + 1]]
                       [] a.col = "FixedString" ->
                            [j \in 1..(N * a.n) |-> a.chars[((j - 1) % a.n) + 1]]
                       [] OTHER -> a.chars,
           !.offsets = IF a.col = "String" THEN [j \in 1..N |-> j * a.offsets[1]]
                       ELSE a.offsets]

\* C8: a non-null constant argument is folded exactly as the full column of
\* N copies of its value: every row holds H(value, that row's own previous
\* accumulator), which is H(value, 42) when the constant is the only
\* argument.
C8_ConstantAsExpanded ==
    \A k \in Folded :
        LET a == arguments[k]
        IN  (a.is_const /\ ~ArgIsNull(a, 1)) =>
               /\ hist[k + 1] = executeAny(Expanded(a), hist[k]).vec_to
               /\ \A i \in Rows : hist[k + 1][i] = H(RowBytes(a, 1), hist[k][i])
               /\ Len(arguments) = 1 =>
                     \A i \in Rows : hist[k + 1][i] = H(RowBytes(a, 1), <<0, 42>>)

\* a non-null constant has been folded over two rows that held different
\* accumulators
C8_Witness ==
    /\ pc = "fold"
    /\ arg_i = 2
    /\ input_rows_count = 2
    /\ arguments[2].is_const
    /\ ~ArgIsNull(arguments[2], 1)
    /\ hist[2][1] # hist[2][2]
    /\ hist[3][1] # hist[2][1]

\* C9 as stated: after a non-null constant argument all N rows hold one and
\* the same value, whatever the earlier arguments left; a null constant
\* changes no row.
C9_OneValueReplicated ==
    \A k \in Folded :
        LET a == arguments[k]
        IN  a.is_const =>
               IF ArgIsNull(a, 1)
               THEN hist[k + 1] = hist[k]
               ELSE \A i, j \in Rows : hist[k + 1][i] = hist[k + 1][j]

\* C9 as amended: the one value of a constant is hashed into every row with
\* that row's own accumulator as the seed, so rows that held equal values
\* hold equal values afterwards and the same span is passed for every row; a
\* null constant changes no row and passes no span.
C9_OneValueEveryRow ==
    \A k \in Folded :
        LET a == arguments[k]
        IN  a.is_const =>
               IF ArgIsNull(a, 1)
               THEN /\ hist[k + 1] = hist[k]
                    /\ k = arg_i => \A i \in Rows : ~fed[i].called
               ELSE /\ \A i, j \in Rows :
                          hist[k][i] = hist[k][j] => hist[k + 1][i] = hist[k + 1][j]
                    /\ k = arg_i =>
                          \A i \in Rows : fed[i] = Fed(RowBytes(a, 1))

\* a null constant was folded after an argument that changed the rows
C9_Witness ==
    /\ pc = "fold"
    /\ arg_i = 2
    /\ input_rows_count = 2
    /\ arguments[2].is_const
    /\ ArgIsNull(arguments[2], 1)
    /\ hist[2][1] # hist[2][2]
    /\ hist[3] = hist[2]

(***************************************************************************)
(* Integers denoted by byte images.                                        *)
(***************************************************************************)
\* a little-endian natural number without its high-order zero bytes
RECURSIVE StripHigh(_)
StripHigh(bs) ==
    IF Len(bs) > 0 /\ bs[Len(bs)] = 0 THEN StripHigh(SubSeq(bs, 1, Len(bs) - 1))
    ELSE bs

\* bs + 1 on a little-endian natural number of fixed width, from byte j on
RECURSIVE Increment(_, _)
Increment(bs, j) ==
    IF j > Len(bs) THEN bs
    ELSE IF bs[j] = 255 THEN Increment([bs EXCEPT ![j] = 0], j + 1)
         ELSE [bs EXCEPT ![j] = bs[j] + 1]

\* the integer a little-endian image denotes, as sign and magnitude; two
\* images of any widths denote the same integer iff these are equal
IntegerOf(bs, signed) ==
    IF signed /\ bs[Len(bs)] >= 128
    THEN [negative |-> TRUE,
          magnitude |-> StripHigh(Increment([j \in 1..Len(bs) |-> 255 - bs[j]], 1))]
    ELSE [negative |-> FALSE, magnitude |-> StripHigh(bs)]

\* the image of width w with the low bytes of bs, filled up with the sign
Resized(bs, signed, w) ==
    [j \in 1..w |-> IF j <= Len(bs) THEN bs[j]
                    ELSE IF signed /\ bs[Len(bs)] >= 128 THEN 255 ELSE 0]

(***************************************************************************)
(* Properties of applyDecimal (specification SpecDecimal).                 *)
(***************************************************************************)
DecimalApplied == fn_out.fn = "applyDecimal"

BitAt(bs, p) == (bs[(p \div 8) + 1] \div (2^(p % 8))) % 2

\* BigInteger.bitLength: the bits of the minimal two's-complement
\* representation without the sign bit
BitLength(bs) ==
    LET sign == BitAt(bs, 8 * Len(bs) - 1)
        differing == { p \in 0..(8 * Len(bs) - 1) : BitAt(bs, p) # sign }
    IN  IF differing = {} THEN 0
        ELSE (CHOOSE p \in differing : \A q \in differing : q <= p) + 1

\* a big-endian two's-complement span sign-extended to w bytes
SignExtendBE(s, w) ==
    Fill(IF s[1] >= 128 THEN 255 ELSE 0, w - Len(s)) \o s

\* C5: the span applyDecimal hashes for a 128-bit value is its minimal
\* big-endian two's-complement encoding: bitLength \div 8 + 1 bytes, most
\* significant first, the top bit being the sign; it extends back to the
\* value and no shorter span does.
C5_MinimalBigEndian ==
    (DecimalApplied /\ fn_in.T = "Decimal128") =>
        LET s == fn_out.span
            be == Reverse(fn_in.n)
        IN  /\ Len(s) \in 1..16
            /\ Len(s) = (BitLength(fn_in.n) \div 8) + 1
            /\ SignExtendBE(s, 16) = be
            /\ (s[1] >= 128) <=> (fn_in.n[16] >= 128)
            /\ Len(s) > 1 => SignExtendBE(Tail(s), 16) # be
            /\ fn_out.h = H(s, fn_in.seed)

\* a negative 128-bit value that needs 9 bytes was hashed
C5_Witness ==
    /\ DecimalApplied
    /\ fn_in.T = "Decimal128"
    /\ fn_in.n[16] >= 128
    /\ Len(fn_out.span) = 9

(***************************************************************************)
(* Properties of applyNumber (specification SpecNumber).                   *)
(***************************************************************************)
NumberApplied == fn_out.fn = "applyNumber"

UpTo32Bits == {"Int8", "Int16", "Int32", "UInt8", "UInt16", "UInt32"}

\* C6: an integer of at most 32 bits is hashed as the 4 little-endian bytes
\* of its sign- or zero-extension (as signed as its type), so that a value
\* representable in two of the types hashes alike in both.
C6_PromotionInvariant ==
    (NumberApplied /\ fn_in.T \in UpTo32Bits) =>
        /\ Len(fn_out.span) = 4
        /\ IntegerOf(fn_out.span, is_signed_v(fn_in.T))
              = IntegerOf(fn_in.n, is_signed_v(fn_in.T))
        /\ fn_out.h = H(fn_out.span, fn_in.seed)
        /\ \A T2 \in UpTo32Bits :
              LET n2 == Resized(fn_in.n, is_signed_v(fn_in.T), SizeOf(T2))
              IN  IntegerOf(n2, is_signed_v(T2)) = IntegerOf(fn_in.n, is_signed_v(fn_in.T)) =>
                     applyNumber(T2, n2, fn_in.seed) = fn_out.h

\* a negative Int8 was hashed
C6_Witness ==
    /\ NumberApplied
    /\ fn_in.T = "Int8"
    /\ fn_in.n[1] >= 128

\* C7: +0.0 and -0.0 of one width hash alike, and as the signed integer 0
\* of that width; every other float is hashed from its own bytes.
C7_ZeroesHashAlike ==
    (NumberApplied /\ fn_in.T \in FloatTypes) =>
        LET w == SizeOf(fn_in.T)
            IntT == IF fn_in.T = "Float32" THEN "Int32" ELSE "Int64"
            positive_zero == Fill(0, w)
            negative_zero == [j \in 1..w |-> IF j = w THEN 128 ELSE 0]
        IN  IF fn_in.n \in {positive_zero, negative_zero}
            THEN /\ fn_out.h = applyNumber(fn_in.T, positive_zero, fn_in.seed)
                 /\ fn_out.h = applyNumber(fn_in.T, negative_zero, fn_in.seed)
                 /\ fn_out.h = applyNumber(IntT, Fill(0, w), fn_in.seed)
                 /\ fn_out.h = H(Fill(0, w), fn_in.seed)
            ELSE /\ fn_out.span = fn_in.n
                 /\ fn_out.h = H(fn_in.n, fn_in.seed)

\* the Float64 -0.0 was hashed
C7_Witness ==
    /\ NumberApplied
    /\ fn_in.T = "Float64"
    /\ fn_in.n = <<0, 0, 0, 0, 0, 0, 0, 128>>

(***************************************************************************)
(* Properties of the 32-bit primitive (specification SpecHash).            *)
(***************************************************************************)
\* a byte as a signed 8-bit value sign-extended to 32 bits
SignExtendedByte(b) == IF b >= 128 THEN <<65535, 65280 + b>> ELSE <<0, b>>

\* Murmur3_x86_32.hashUnsafeBytes: the aligned blocks, then every remaining
\* byte as a round of its own on the sign-extended byte, then fmix with the
\* length
RECURSIVE hashUnsafeBytesRounds(_, _, _)
hashUnsafeBytesRounds(bytes, done, seed) ==
    IF done = 0 THEN seed
    ELSE IF done <= Len(bytes) - (Len(bytes) % 4)
         THEN IF done % 4 = 0
              THEN Round[hashUnsafeBytesRounds(bytes, done - 4, seed),
                         <<bytes[done] * 256 + bytes[done - 1],
                           bytes[done - 2] * 256 + bytes[done - 3]>>]
              ELSE hashUnsafeBytesRounds(bytes, done - (done % 4), seed)
         ELSE Round[hashUnsafeBytesRounds(bytes, done - 1, seed),
                    SignExtendedByte(bytes[done])]

hashUnsafeBytes(bytes, seed) ==
    Finalization(hashUnsafeBytesRounds(bytes, Len(bytes), seed), Len(bytes))

\* C10: the 32-bit primitive returns what Murmur3_x86_32.hashUnsafeBytes
\* returns for the same bytes and seed, also when a tail byte has its high
\* bit set.
C10_EqualsHashUnsafeBytes ==
    fn_out.fn = "hash32" =>
        fn_out.h = hashUnsafeBytes(SubSeq(fn_in.key, 1, fn_in.len), fn_in.seed)

(***************************************************************************)
(* The 32-bit primitive as the sequence of steps described for it, with    *)
(* the products formed by shifting and adding.                             *)
(***************************************************************************)
\* byte j (0 the lowest) of a 32-bit number
ByteOf(x, j) == (x[(IF j < 2 THEN 2 ELSE 1)] \div (IF j % 2 = 1 THEN 256 ELSE 1)) % 256

\* x * k modulo 2^32 by long multiplication on bytes: the byte products of
\* each column summed, the carries taken to the next column
Times[x \in U32, k \in U32] ==
    LET col(n) == IF n = 0 THEN ByteOf(x, 0) * ByteOf(k, 0)
                  ELSE IF n = 1 THEN ByteOf(x, 0) * ByteOf(k, 1) + ByteOf(x, 1) * ByteOf(k, 0)
                  ELSE IF n = 2 THEN ByteOf(x, 0) * ByteOf(k, 2) + ByteOf(x, 1) * ByteOf(k, 1)
                                     + ByteOf(x, 2) * ByteOf(k, 0)
                  ELSE ByteOf(x, 0) * ByteOf(k, 3) + ByteOf(x, 1) * ByteOf(k, 2)
                       + ByteOf(x, 2) * ByteOf(k, 1) + ByteOf(x, 3) * ByteOf(k, 0)
        t0 == col(0)
        t1 == col(1) + (t0 \div 256)
        t2 == col(2) + (t1 \div 256)
        t3 == col(3) + (t2 \div 256)
    IN  <<(t3 % 256) * 256 + (t2 % 256), (t1 % 256) * 256 + (t0 % 256)>>

\* x rotated left by r bits
RotatedLeft(x, r) == Add32(Shl32(x, r), Shr32(x, 32 - r))

\* k*=0xcc9e2d51, rotl 15, k*=0x1b873593, h^=k, rotl 13, h=h*5+0xe6546b64
MixingRound[h \in U32, k \in U32] ==
    LET k1 == Times[RotatedLeft(Times[k, <<52382, 11601>>], 15), <<7047, 13715>>]
        h1 == RotatedLeft(Xor32(h, k1), 13)
    IN  Add32(Add32(Shl32(h1, 2), h1), <<58964, 27492>>)

\* h after the first n rounds over a span of len bytes: a block per round
\* for len div 4 rounds, then a byte per round
RECURSIVE AfterRounds(_, _, _, _)
AfterRounds(bytes, len, seed, n) ==
    IF n = 0 THEN seed
    ELSE LET h == AfterRounds(bytes, len, seed, n - 1)
         IN  IF n <= len \div 4
             THEN MixingRound[h, <<bytes[4 * n] * 256 + bytes[4 * n - 1],
                                   bytes[4 * n - 2] * 256 + bytes[4 * n - 3]>>]
             ELSE MixingRound[h, <<0, bytes[4 * (len \div 4) + (n - len \div 4)]>>]

\* h^=h>>16, *0x85ebca6b, h^=h>>13, *0xc2b2ae35, h^=h>>16
Avalanche(h) ==
    LET a == Times[Xor32(h, Shr32(h, 16)), <<34283, 51819>>]
        b == Times[Xor32(a, Shr32(a, 13)), <<49842, 44597>>]
    IN  Xor32(b, Shr32(b, 16))

\* the state of h before h ^= len
BeforeLength(bytes, len, seed) ==
    AfterRounds(bytes, len, seed, (len \div 4) + (len % 4))

\* C11: hash32(bytes, len, seed) is the seed taken through one mixing round
\* per 4-byte little-endian block and one per remaining tail byte, then
\* h ^= len and the avalanche, all modulo 2^32; the empty span yields
\* avalanche(seed), which is 0 for seed 0; the same rounds finalized with
\* another length give another hash.
C11_Hash32AsSpecified ==
    fn_out.fn = "hash32" =>
        LET h == BeforeLength(fn_in.key, fn_in.len, fn_in.seed)
        IN  /\ fn_out.h = Avalanche(Xor32(h, <<0, fn_in.len>>))
            /\ fn_in.len = 0 => fn_out.h = Avalanche(fn_in.seed)
            /\ (fn_in.len = 0 /\ fn_in.seed = <<0, 0>>) => fn_out.h = <<0, 0>>
            /\ \A l \in 0..MaxSpanLen :
                  l # fn_in.len => Avalanche(Xor32(h, <<0, l>>)) # fn_out.h

\* a span of a block and a tail byte with its high bit set was hashed
C11_Witness ==
    /\ fn_out.fn = "hash32"
    /\ fn_in.len = 5
    /\ fn_in.key[5] = 255
    /\ fn_in.seed = InitialSeed
    /\ fn_out.h # fn_in.seed

(***************************************************************************)
(* Rows of one call.                                                       *)
(***************************************************************************)
\* the value argument a holds in row i (1-based)
RowValue(a, i) ==
    LET r == IF a.is_const THEN 1 ELSE i
    IN  CASE a.col = "Vector" -> a.data[r]
          [] a.col = "FixedString" -> SubSeq(a.chars, (r - 1) * a.n + 1, r * a.n)
          [] a.col = "String" ->
               SubSeq(a.chars, (IF r = 1 THEN 0 ELSE a.offsets[r - 1]) + 1, a.offsets[r] - 1)

\* rows i and j agree in argument a: both null, or both not null and equal
SameInArgument(a, i, j) ==
    /\ ArgIsNull(a, i) = ArgIsNull(a, j)
    /\ ~ArgIsNull(a, i) => RowValue(a, i) = RowValue(a, j)

\* row i of the column the caller receives
OutputRow(i) ==
    IF result.null_map # <<>> /\ result.null_map[i] THEN <<"NULL">> ELSE result.data[i]

\* C16: in the column a call returns, two rows that have in every argument
\* the same null status and, where not null, the same value hold the same
\* hash, wherever the rows are and whatever the other rows hold.
C16_EqualRowsEqualHashes ==
    pc = "returned" =>
        \A i, j \in 1..input_rows_count :
            (\A k \in 1..Len(columns) : SameInArgument(columns[k], i, j))
                => OutputRow(i) = OutputRow(j)

\* two rows that agree in a full String column and in a null constant were
\* hashed and hold the same hash, not the seed
C16_Witness ==
    /\ pc = "returned"
    /\ entry = "executeImpl"
    /\ input_rows_count = 2
    /\ Len(columns) = 2
    /\ columns[1].is_const /\ ArgIsNull(columns[1], 1)
    /\ ~columns[2].is_const /\ columns[2].col = "String" /\ ~columns[2].is_nullable
    /\ SameInArgument(columns[2], 1, 2)
    /\ OutputRow(1) = OutputRow(2)
    /\ OutputRow(1) # InitialSeed

\* C19: for a full String column the span hashed for row i is the bytes
\* from offsets[i-1] (0 for the first row) up to, not including, the
\* terminator at offsets[i] - 1, offsets[i] - offsets[i-1] - 1 bytes; a null
\* row is not hashed and does not shift the span of any later row.
C19_SpanBetweenOffsets ==
    (/\ pc \in {"fold", "returned"}
     /\ arg_i >= 1
     /\ arguments[IF arg_i >= 1 THEN arg_i ELSE 1].type = "String"
     /\ ~arguments[IF arg_i >= 1 THEN arg_i ELSE 1].is_const) =>
        LET a == arguments[arg_i]
            start(i) == IF i = 1 THEN 0 ELSE a.offsets[i - 1]
        IN  \A i \in 1..input_rows_count :
               /\ fed[i].called = ~ArgIsNull(a, i)
               /\ fed[i].called =>
                     /\ Len(fed[i].span) = a.offsets[i] - start(i) - 1
                     /\ \A j \in 1..Len(fed[i].span) : fed[i].span[j] = a.chars[start(i) + j]
                     /\ start(i) + Len(fed[i].span) + 1 = a.offsets[i]
                     /\ a.chars[a.offsets[i]] = 0

\* a String column whose first row is null and whose second row "bb" was
\* hashed from its own two bytes
C19_Witness ==
    /\ pc = "fold"
    /\ arg_i = 1
    /\ input_rows_count = 2
    /\ arguments[1].type = "String"
    /\ ~arguments[1].is_const
    /\ ArgIsNull(arguments[1], 1)
    /\ ~fed[1].called
    /\ fed[2].called
    /\ fed[2].span = <<98, 98>>

(***************************************************************************)
(* The bounds of the trimming in applyDecimal.                             *)
(***************************************************************************)
\* leading_zeros as applyDecimal counts it for a 128-bit value
LeadingZerosOf(n) ==
    CountLeadingZeros(<<SubSeq(n, 1, 8), SubSeq(n, 9, 16)>>, IsNegative(n), 0)

\* C20: for every 128-bit decimal value the trimming computes
\* 1 <= leading_zeros <= 128, an offset in 0..15 and a length in 1..16 with
\* offset + length = 16: the span lies inside the 16-byte buffer, is never
\* empty, and the subtraction in the offset never goes below zero.
C20_TrimmingInBounds ==
    (fn_out.fn = "applyDecimal" /\ fn_in.T = "Decimal128") =>
        LET leading_zeros == LeadingZerosOf(fn_in.n)
            subtrahend == (16 * 8 - leading_zeros + 8) \div 8
            offset == DecimalOffset(16, leading_zeros)
            length == Len(fn_out.span)
        IN  /\ leading_zeros \in 1..128
            /\ 16 * 8 - leading_zeros >= 0
            /\ subtrahend <= 16
            /\ offset \in 0..15
            /\ length \in 1..16
            /\ offset + length = 16
            /\ fn_out.span = SubSeq(ToBigEndian(<<SubSeq(fn_in.n, 1, 8), SubSeq(fn_in.n, 9, 16)>>),
                                    offset + 1, offset + length)

\* the minimum 128-bit value: one leading zero of the complement, no byte
\* trimmed
C20_Witness ==
    /\ fn_out.fn = "applyDecimal"
    /\ fn_in.T = "Decimal128"
    /\ fn_in.n = Fill(0, 15) \o <<128>>
    /\ LeadingZerosOf(fn_in.n) = 1
    /\ Len(fn_out.span) = 16

(***************************************************************************)
(* CHManagedReservationListener.  listener is a record                     *)
(*   consumer        "set", or "null" once inactivate assigned null        *)
(*   open            the volatile flag                                     *)
(*   currentMemory   the AtomicLong                                        *)
(*   lock            the thread inside synchronized (this), 0 for none     *)
(*   acquired, metrics   the sum of what consumer.acquire / free and       *)
(*                   metrics.inc were called with                          *)
(*   consumer_calls  the number of calls made on the consumer              *)
(*   npe             a call was made on the null consumer                  *)
(*   th              per calling thread: the method op it is in, its       *)
(*                   argument size, its position pc, the local             *)
(*                   memoryToFree, what currentMemory.get() returned       *)
(*                   (seen), what the call passed to the consumer and to   *)
(*                   the metrics, whether it found the listener closed,    *)
(*                   and the number of calls it has made                   *)
(***************************************************************************)
MaxSize == 2
MaxCalls == 2

Callers == {1, 2}

NotCalling(calls) ==
    [op |-> "none", size |-> 0, pc |-> "idle", memoryToFree |-> 0, seen |-> 0,
     to_consumer |-> 0, to_metrics |-> 0, found_closed |-> FALSE, calls |-> calls]

\* the state the constructor leaves
InitListener ==
    /\ NoCall
    /\ fn_in = NoFn
    /\ fn_out = NoFn
    /\ selector = [implementations |-> {}]
    /\ threads = <<>>
    /\ NoPlan
    /\ listener = [consumer |-> "set", open |-> TRUE, currentMemory |-> 0, lock |-> 0,
                   acquired |-> 0, metrics |-> 0, consumer_calls |-> 0, npe |-> FALSE,
                   th |-> [t \in Callers |-> NotCalling(0)]]

listenerRest == <<callVars, fn_in, fn_out, selector, threads, explain>>

\* synchronized (this): the monitor is free
MayEnter(l, t) == l.lock = 0

\* the size asked for freed as it is
memoryToFree_Unclamped(current, size) == size

\* long memoryToFree = size; if ((currentMemory.get() - size) < 0L)
\* memoryToFree = currentMemory.get();
memoryToFree(current, size) == IF current - size < 0 THEN current ELSE size

\* the flag not looked at
Closed_Never(l) == FALSE

\* if (!open) return;
Closed(l) == ~l.open

\* a thread calls reserve(size), unreserve(size) or inactivate()
BeginCall(t) ==
    /\ listener.th[t].pc = "idle"
    /\ listener.th[t].calls < MaxCalls
    /\ \E op \in {"reserve", "unreserve", "inactivate"} :
          \E size \in 0..MaxSize :
             /\ op = "inactivate" => size = 0
             /\ listener' = [listener EXCEPT !.th[t] =
                                [NotCalling(listener.th[t].calls) EXCEPT
                                    !.op = op, !.size = size, !.pc = "enter"]]
    /\ UNCHANGED listenerRest

\* the thread enters synchronized (this)
Enter(t) ==
    /\ listener.th[t].pc = "enter"
    /\ MayEnter(listener, t)
    /\ listener' = [listener EXCEPT
                       !.lock = t,
                       !.th[t].pc = IF listener.th[t].op = "inactivate" THEN "null"
                                    ELSE "check"]
    /\ UNCHANGED listenerRest

\* if (!open) return;
CheckOpen(t) ==
    /\ listener.th[t].pc = "check"
    /\ listener' = [listener EXCEPT
                       !.th[t].found_closed = Closed(listener),
                       !.th[t].pc = IF Closed(listener) THEN "exit"
                                    ELSE IF listener.th[t].op = "reserve" THEN "acquire"
                                    ELSE "compute"]
    /\ UNCHANGED listenerRest

\* consumer.acquire(size) returns; on the null reference the call throws
\* a NullPointerException, which leaves reserve
Acquire(t) ==
    /\ listener.th[t].pc = "acquire"
    /\ listener' = IF listener.consumer = "null"
                   THEN [listener EXCEPT !.npe = TRUE, !.th[t].pc = "exit"]
                   ELSE [listener EXCEPT
                            !.acquired = @ + listener.th[t].size,
                            !.consumer_calls = @ + 1,
                            !.th[t].to_consumer = listener.th[t].size,
                            !.th[t].pc = "add"]
    /\ UNCHANGED listenerRest

\* consumer.acquire(size) throws: the exception leaves reserve
AcquireThrows(t) ==
    /\ listener.th[t].pc = "acquire"
    /\ listener.consumer # "null"
    /\ listener' = [listener EXCEPT
                       !.consumer_calls = @ + 1,
                       !.th[t].pc = "exit"]
    /\ UNCHANGED listenerRest

\* the clamp of unreserve
ComputeToFree(t) ==
    /\ listener.th[t].pc = "compute"
    /\ listener' = [listener EXCEPT
                       !.th[t].seen = listener.currentMemory,
                       !.th[t].memoryToFree =
                           memoryToFree(listener.currentMemory, listener.th[t].size),
                       !.th[t].pc = "free"]
    /\ UNCHANGED listenerRest

\* consumer.free(memoryToFree); on the null reference the call throws a
\* NullPointerException, which leaves unreserve
Free(t) ==
    /\ listener.th[t].pc = "free"
    /\ listener' = IF listener.consumer = "null"
                   THEN [listener EXCEPT !.npe = TRUE, !.th[t].pc = "exit"]
                   ELSE [listener EXCEPT
                            !.acquired = @ - listener.th[t].memoryToFree,
                            !.consumer_calls = @ + 1,
                            !.th[t].to_consumer = listener.th[t].memoryToFree,
                            !.th[t].pc = "add"]
    /\ UNCHANGED listenerRest

\* currentMemory.addAndGet(size) / currentMemory.addAndGet(-memoryToFree)
AddAndGet(t) ==
    /\ listener.th[t].pc = "add"
    /\ listener' = [listener EXCEPT
                       !.currentMemory =
                           IF listener.th[t].op = "reserve" THEN @ + listener.th[t].size
                           ELSE @ - listener.th[t].memoryToFree,
                       !.th[t].pc = "inc"]
    /\ UNCHANGED listenerRest

\* metrics.inc(size) / metrics.inc(-memoryToFree)
MetricsInc(t) ==
    /\ listener.th[t].pc = "inc"
    /\ listener' = [listener EXCEPT
                       !.metrics =
                           IF listener.th[t].op = "reserve" THEN @ + listener.th[t].size
                           ELSE @ - listener.th[t].memoryToFree,
                       !.th[t].to_metrics =
                           IF listener.th[t].op = "reserve" THEN listener.th[t].size
                           ELSE listener.th[t].memoryToFree,
                       !.th[t].pc = "exit"]
    /\ UNCHANGED listenerRest

\* consumer = null;
NullTheConsumer(t) ==
    /\ listener.th[t].pc = "null"
    /\ listener' = [listener EXCEPT !.consumer = "null", !.th[t].pc = "close"]
    /\ UNCHANGED listenerRest

\* open = false;
Close(t) ==
    /\ listener.th[t].pc = "close"
    /\ listener' = [listener EXCEPT !.open = FALSE, !.th[t].pc = "exit"]
    /\ UNCHANGED listenerRest

\* the thread leaves synchronized (this) and the method returns
Exit(t) ==
    /\ listener.th[t].pc = "exit"
    /\ listener' = [listener EXCEPT
                       !.lock = IF @ = t THEN 0 ELSE @,
                       !.th[t].pc = "idle",
                       !.th[t].calls = @ + 1]
    /\ UNCHANGED listenerRest

NextListener ==
    \E t \in Callers :
        \/ BeginCall(t)
        \/ Enter(t)
        \/ CheckOpen(t)
        \/ Acquire(t)
        \/ AcquireThrows(t)
        \/ ComputeToFree(t)
        \/ Free(t)
        \/ AddAndGet(t)
        \/ MetricsInc(t)
        \/ NullTheConsumer(t)
        \/ Close(t)
        \/ Exit(t)

SpecListener == InitListener /\ [][NextListener]_vars

\* C21: whatever the interleaving of reserve(s), unreserve(s), s >= 0, and
\* inactivate, currentMemory() is never negative; an unreserve(s) with s
\* above the current value frees the current value, to the consumer and to
\* the metrics, and leaves currentMemory at 0; any other unreserve frees s;
\* the amount freed is never above the amount reserved.
C21_NeverNegative ==
    /\ listener.currentMemory >= 0
    /\ \A t \in Callers :
          LET c == listener.th[t]
          IN  (c.op = "unreserve" /\ c.pc \in {"free", "add", "inc", "exit"}
               /\ ~c.found_closed) =>
                 /\ c.memoryToFree = IF c.size > c.seen THEN c.seen ELSE c.size
                 /\ c.memoryToFree <= c.seen
                 /\ c.memoryToFree >= 0
                 /\ c.pc \in {"add", "inc", "exit"} => c.to_consumer = c.memoryToFree
                 /\ c.pc \in {"inc", "exit"} =>
                       /\ listener.currentMemory = c.seen - c.memoryToFree
                       /\ c.size > c.seen => listener.currentMemory = 0
                 /\ c.pc = "exit" => c.to_metrics = c.memoryToFree

\* an unreserve of more than is reserved has freed what was reserved
C21_Witness ==
    \E t \in Callers :
        /\ listener.th[t].op = "unreserve"
        /\ listener.th[t].pc = "exit"
        /\ listener.th[t].seen = 1
        /\ listener.th[t].size = 2
        /\ listener.th[t].to_consumer = 1
        /\ listener.th[t].to_metrics = 1
        /\ listener.currentMemory = 0

\* C22: once inactivate has completed the listener stays closed, and no
\* later step of any reserve or unreserve calls the consumer, changes the
\* metrics or changes currentMemory; the null consumer is never called; and
\* while a thread is inside inactivate no reserve or unreserve is inside
\* its synchronized block.
C22_ClosedForGood ==
    [][/\ ~listener.open =>
             /\ ~listener'.open
             /\ listener'.consumer = "null"
             /\ listener'.currentMemory = listener.currentMemory
             /\ listener'.metrics = listener.metrics
             /\ listener'.acquired = listener.acquired
             /\ listener'.consumer_calls = listener.consumer_calls
       /\ ~listener'.npe
       /\ \A t, u \in Callers :
             (/\ t # u
              /\ listener'.th[t].op = "inactivate"
              /\ listener'.th[t].pc \in {"null", "close"})
                 => listener'.th[u].pc \in {"idle", "enter"}]_vars

\* after inactivate a reserve of a positive size returned without effect,
\* the memory reserved before still counted
C22_Witness ==
    \E t \in Callers :
        /\ ~listener.open
        /\ listener.th[t].op = "reserve"
        /\ listener.th[t].size > 0
        /\ listener.th[t].pc = "exit"
        /\ listener.th[t].found_closed
        /\ listener.th[t].to_consumer = 0
        /\ listener.currentMemory > 0

(***************************************************************************)
(* GlutenExplainUtils.processPlan and generateOperatorIDs.  Operators are  *)
(* numbered objects; g maps an operator to a record                        *)
(*   kind            "Other", "WholeStageCodegen", "InputAdapter",         *)
(*                   "Adaptive", "QueryStage", "Subquery",                 *)
(*                   "ReusedExchange"                                      *)
(*   children, innerChildren   sequences of operators                      *)
(*   subqueries      the subquery plans in the expressions of the operator *)
(*   executedPlan, initialPlan, fastEquals   of an AdaptiveSparkPlanExec   *)
(*   plan            of a QueryStageExec                                   *)
(*   child           of a ReusedExchangeExec                               *)
(* A traversal state st holds                                              *)
(*   id        currentOperationID                                          *)
(*   visited   the identity set of operators                               *)
(*   tag       OP_ID_TAG of every operator, 0 when unset                   *)
(*   reused    the buffer reusedExchanges                                  *)
(*   assigned  every setTagValue made, in order, as <<operator, id>>       *)
(*   calls     every call of generateOperatorIDs that returned: its plan,  *)
(*             its startOperatorID, its result, and the length of          *)
(*             assigned when it began and when it returned                 *)
(***************************************************************************)
Operator(kind, children, innerChildren, subqueries) ==
    [kind |-> kind, children |-> children, innerChildren |-> innerChildren,
     subqueries |-> subqueries, executedPlan |-> 0, initialPlan |-> 0,
     fastEquals |-> TRUE, plan |-> 0, child |-> 0]

AdaptiveSparkPlanExec(executedPlan, initialPlan, fastEquals) ==
    [Operator("Adaptive", <<>>, <<>>, <<>>) EXCEPT
        !.executedPlan = executedPlan, !.initialPlan = initialPlan,
        !.fastEquals = fastEquals]

QueryStageExec(plan) == [Operator("QueryStage", <<>>, <<>>, <<>>) EXCEPT !.plan = plan]

ReusedExchangeExec(child) ==
    [Operator("ReusedExchange", <<>>, <<>>, <<>>) EXCEPT !.child = child]

\* setOpId without the test of the visited set
setOpId_Revisit(g, st, p, addReusedExchanges) ==
    [st EXCEPT !.reused = IF g[p].kind = "ReusedExchange" /\ addReusedExchanges
                          THEN Append(@, p) ELSE @,
               !.visited = @ \union {p},
               !.id = @ + 1,
               !.tag[p] = st.id + 1,
               !.assigned = Append(@, <<p, st.id + 1>>)]

\* def setOpId(plan): Unit = if (!visited.contains(plan)) { ... }
setOpId(g, st, p, addReusedExchanges) ==
    IF p \in st.visited THEN st
    ELSE [st EXCEPT !.reused = IF g[p].kind = "ReusedExchange" /\ addReusedExchanges
                               THEN Append(@, p) ELSE @,
                    !.visited = @ \union {p},
                    !.id = @ + 1,
                    !.tag[p] = st.id + 1,
                    !.assigned = Append(@, <<p, st.id + 1>>)]

RECURSIVE generateOperatorIDs(_, _, _, _)
RECURSIVE foreachUp(_, _, _, _)
RECURSIVE foreachUpChildren(_, _, _, _, _)
RECURSIVE foldInnerChildren(_, _, _, _, _)

\* generateOperatorIDs(plan, startOperatorID = st.id, visited, reusedExchanges,
\* addReusedExchanges): the state it leaves, its result in id
generateOperatorIDs(g, plan, st, addReusedExchanges) ==
    LET r == IF g[plan].kind = "Subquery" THEN st
             ELSE foreachUp(g, plan, st, addReusedExchanges)
    IN  [r EXCEPT !.calls = Append(@, [plan |-> plan, start |-> st.id, result |-> r.id,
                                       before |-> Len(st.assigned),
                                       after |-> Len(r.assigned)])]

\* other.innerChildren.foldLeft(currentOperationID) { generateOperatorIDs }
foldInnerChildren(g, plans, k, st, addReusedExchanges) ==
    IF k > Len(plans) THEN st
    ELSE foldInnerChildren(g, plans, k + 1,
                           generateOperatorIDs(g, plans[k], st, addReusedExchanges),
                           addReusedExchanges)

\* the cases of the function passed to plan.foreachUp
visitOperator(g, p, st, addReusedExchanges) ==
    CASE g[p].kind \in {"WholeStageCodegen", "InputAdapter"} -> st
      [] g[p].kind = "Adaptive" ->
           LET executed == generateOperatorIDs(g, g[p].executedPlan, st, addReusedExchanges)
               initial == IF ~g[p].fastEquals
                          THEN generateOperatorIDs(g, g[p].initialPlan, executed,
                                                   addReusedExchanges)
                          ELSE executed
           IN  setOpId(g, initial, p, addReusedExchanges)
      [] g[p].kind = "QueryStage" ->
           setOpId(g, generateOperatorIDs(g, g[p].plan, st, addReusedExchanges), p,
                   addReusedExchanges)
      [] OTHER ->
           foldInnerChildren(g, g[p].innerChildren, 1,
                             setOpId(g, st, p, addReusedExchanges), addReusedExchanges)

\* TreeNode.foreachUp: the children first, then the operator
foreachUpChildren(g, cs, k, st, addReusedExchanges) ==
    IF k > Len(cs) THEN st
    ELSE foreachUpChildren(g, cs, k + 1, foreachUp(g, cs[k], st, addReusedExchanges),
                           addReusedExchanges)

foreachUp(g, p, st, addReusedExchanges) ==
    visitOperator(g, p, foreachUpChildren(g, g[p].children, 1, st, addReusedExchanges),
                  addReusedExchanges)

RECURSIVE getSubqueries(_, _)
RECURSIVE getSubqueriesOfAll(_, _, _)
RECURSIVE getSubqueriesIn(_, _, _)

\* the subquery plans collected from the expressions of one operator, each
\* followed by those found inside it
getSubqueriesIn(g, subs, k) ==
    IF k > Len(subs) THEN <<>>
    ELSE <<subs[k]>> \o getSubqueries(g, subs[k]) \o getSubqueriesIn(g, subs, k + 1)

getSubqueriesOfAll(g, cs, k) ==
    IF k > Len(cs) THEN <<>>
    ELSE getSubqueries(g, cs[k]) \o getSubqueriesOfAll(g, cs, k + 1)

\* getSubqueries(plan, subqueries): plan.foreach, the operator first, then
\* its children
getSubqueries(g, p) ==
    (CASE g[p].kind = "Adaptive" -> getSubqueries(g, g[p].executedPlan)
       [] g[p].kind = "QueryStage" -> getSubqueries(g, g[p].plan)
       [] OTHER -> getSubqueriesIn(g, g[p].subqueries, 1))
    \o getSubqueriesOfAll(g, g[p].children, 1)

RECURSIVE removeTags(_, _, _)
RECURSIVE removeTagsOfAll(_, _, _, _)

removeTagsOfAll(g, ps, k, tag) ==
    IF k > Len(ps) THEN tag
    ELSE removeTagsOfAll(g, ps, k + 1, removeTags(g, ps[k], tag))

\* removeTags(plan): plan.foreach unsets the tag of the operator and goes
\* into the plans it holds, then into its children
removeTags(g, p, tag) ==
    LET held == CASE g[p].kind = "Adaptive" -> <<g[p].executedPlan, g[p].initialPlan>>
                  [] g[p].kind = "QueryStage" -> <<g[p].plan>>
                  [] OTHER -> g[p].innerChildren
    IN  removeTagsOfAll(g, g[p].children, 1,
                        removeTagsOfAll(g, held, 1, [tag EXCEPT ![p] = 0]))

\* the plans explained: a join (6) of a query stage or operator (4) over an
\* exchange (3), and of a reused exchange (5) whose exchange is in the plan
\* (3) or was optimized out (8, over a further reused exchange 12); an inner
\* child (7), a subquery (9 over 10), and an adaptive root (11) whose initial
\* plan is the executed plan or another plan (13) that shares operators
Operators == 1..13

PlanGraph(kind2, kind4, reusedChild, inner, withSubquery, root) ==
    [n \in Operators |->
       CASE n = 1 -> Operator("Other", <<>>, <<>>, <<>>)
         [] n = 2 -> Operator(kind2, <<1>>, <<>>, <<>>)
         [] n = 3 -> Operator("Other", <<2>>, <<>>, <<>>)
         [] n = 4 -> IF kind4 = "QueryStage" THEN QueryStageExec(3)
                     ELSE Operator("Other", <<3>>, <<>>, <<>>)
         [] n = 5 -> ReusedExchangeExec(reusedChild)
         [] n = 6 -> Operator("Other", <<4, 5>>,
                              IF inner = "none" THEN <<>> ELSE <<7>>,
                              IF withSubquery THEN <<9>> ELSE <<>>)
         [] n = 7 -> Operator(IF inner = "subquery" THEN "Subquery" ELSE "Other",
                              <<>>, <<>>, <<>>)
         [] n = 8 -> Operator("Other", <<12>>, <<>>, <<>>)
         [] n = 9 -> Operator("Subquery", <<10>>, <<>>, <<>>)
         [] n = 10 -> Operator("Other", <<>>, <<>>, <<>>)
         [] n = 11 -> IF root = "AdaptiveChanged" THEN AdaptiveSparkPlanExec(6, 13, FALSE)
                      ELSE AdaptiveSparkPlanExec(6, 6, TRUE)
         [] n = 12 -> ReusedExchangeExec(3)
         [] n = 13 -> Operator("Other", <<4, 1>>, <<>>, <<>>)]

PlanGraphs ==
    { [g |-> PlanGraph(kind2, kind4, reusedChild, inner, withSubquery, root),
       root |-> IF root = "Plain" THEN 6 ELSE 11] :
        kind2 \in {"Other", "InputAdapter", "WholeStageCodegen"},
        kind4 \in {"QueryStage", "Other"},
        reusedChild \in {3, 8},
        inner \in {"none", "plan", "subquery"},
        withSubquery \in BOOLEAN,
        root \in {"Plain", "AdaptiveSame", "AdaptiveChanged"} }

\* processPlan is entered: operators and reusedExchanges are empty,
\* currentOperatorID is 0; some operators may carry the tags left by the
\* processPlan call of an earlier AQE iteration
InitExplain ==
    /\ NoCall
    /\ fn_in = NoFn
    /\ fn_out = NoFn
    /\ selector = [implementations |-> {}]
    /\ threads = <<>>
    /\ NoListener
    /\ \E pg \in PlanGraphs :
       \E stale \in {[n \in Operators |-> 0],
                     [n \in Operators |-> IF n \in {1, 8, 13} THEN 1 ELSE 0]} :
          explain = [pc |-> "main", g |-> pg.g, plan |-> pg.root, stale |-> stale,
                     st |-> [id |-> 0, visited |-> {}, tag |-> stale, reused |-> <<>>,
                             assigned |-> <<>>, calls |-> <<>>],
                     subqueries |-> <<>>, i |-> 0, optimizedOutExchanges |-> <<>>]


\* currentOperatorID = generateOperatorIDs(plan, currentOperatorID, ...);
\* getSubqueries(plan, subqueries)
GenerateForPlan ==
    /\ explain.pc = "main"
    /\ explain' = [explain EXCEPT
                      !.st = generateOperatorIDs(explain.g, explain.plan, explain.st, TRUE),
                      !.subqueries = getSubqueries(explain.g, explain.plan),
                      !.i = 0,
                      !.pc = "subqueries"]
    /\ UNCHANGED <<callVars, fn_in, fn_out, selector, threads, listener>>

\* one step of subqueries.foldLeft: generateOperatorIDs(plan._3.child, curId, ...)
GenerateForSubquery ==
    /\ explain.pc = "subqueries"
    /\ explain.i < Len(explain.subqueries)
    /\ explain' = [explain EXCEPT
                      !.st = generateOperatorIDs(
                                 explain.g,
                                 explain.g[explain.subqueries[explain.i + 1]].children[1],
                                 explain.st, TRUE),
                      !.i = @ + 1]
    /\ UNCHANGED <<callVars, fn_in, fn_out, selector, threads, listener>>

\* the fold is over; reusedExchanges.foreach begins
SubqueriesDone ==
    /\ explain.pc = "subqueries"
    /\ explain.i = Len(explain.subqueries)
    /\ explain' = [explain EXCEPT !.pc = "reused", !.i = 0]
    /\ UNCHANGED <<callVars, fn_in, fn_out, selector, threads, listener>>

\* one step of reusedExchanges.foreach
GenerateForReusedExchange ==
    /\ explain.pc = "reused"
    /\ explain.i < Len(explain.st.reused)
    /\ LET child == explain.g[explain.st.reused[explain.i + 1]].child
       IN  explain' =
              IF child \notin explain.st.visited
              THEN [explain EXCEPT
                       !.optimizedOutExchanges = Append(@, child),
                       !.st = generateOperatorIDs(explain.g, child, explain.st, FALSE),
                       !.i = @ + 1]
              ELSE [explain EXCEPT !.i = @ + 1]
    /\ UNCHANGED <<callVars, fn_in, fn_out, selector, threads, listener>>

\* the output is produced and, in the finally block, removeTags(plan)
FinishPlan ==
    /\ explain.pc = "reused"
    /\ explain.i = Len(explain.st.reused)
    /\ explain' = [explain EXCEPT
                      !.st.tag = removeTags(explain.g, explain.plan, explain.st.tag),
                      !.pc = "done"]
    /\ UNCHANGED <<callVars, fn_in, fn_out, selector, threads, listener>>

NextExplain ==
    \/ GenerateForPlan
    \/ GenerateForSubquery
    \/ SubqueriesDone
    \/ GenerateForReusedExchange
    \/ FinishPlan

SpecExplain == InitExplain /\ [][NextExplain]_vars

(***************************************************************************)
(* The operators a call of generateOperatorIDs on p comes to: none when p  *)
(* is a subquery, otherwise p, its descendants, and what the adaptive      *)
(* plans, query stages and inner children among them hold.                 *)
(***************************************************************************)
RECURSIVE Reached(_, _)
RECURSIVE Below(_, _)

Below(g, p) ==
    {p}
    \union UNION { Below(g, g[p].children[k]) : k \in DOMAIN g[p].children }
    \union (CASE g[p].kind \in {"WholeStageCodegen", "InputAdapter"} -> {}
              [] g[p].kind = "Adaptive" ->
                   Reached(g, g[p].executedPlan)
                   \union (IF g[p].fastEquals THEN {} ELSE Reached(g, g[p].initialPlan))
              [] g[p].kind = "QueryStage" -> Reached(g, g[p].plan)
              [] OTHER -> UNION { Reached(g, g[p].innerChildren[k]) :
                                     k \in DOMAIN g[p].innerChildren })

Reached(g, p) == IF g[p].kind = "Subquery" THEN {} ELSE Below(g, p)

Numbered(g, p) ==
    {n \in Reached(g, p) : g[n].kind \notin {"WholeStageCodegen", "InputAdapter"}}

AssignedIn(a, from, to) == {a[k][1] : k \in from..to}

(***************************************************************************)
(* C23: within one processPlan call, every call of generateOperatorIDs     *)
(* gives the operators it comes to for the first time, other than          *)
(* WholeStageCodegenExec, InputAdapter and subquery roots, the identifiers *)
(* startOperatorID + 1, startOperatorID + 2, ... in the order it comes to  *)
(* them, and returns the last one, or startOperatorID when it assigned     *)
(* none; no operator is given an identifier twice, no two operators share  *)
(* one, and until the tags are removed every operator numbered in this     *)
(* call still carries the identifier it was first given.                   *)
(***************************************************************************)
C23_ConsecutiveIdentifiers ==
    explain.pc # "none" =>
      LET st == explain.st
          a == st.assigned
      IN  /\ \A c \in DOMAIN st.calls :
                LET call == st.calls[c]
                IN  /\ \A k \in (call.before + 1)..call.after :
                          a[k][2] = call.start + (k - call.before)
                    /\ call.result = call.start + (call.after - call.before)
                    /\ AssignedIn(a, call.before + 1, call.after)
                         = Numbered(explain.g, call.plan) \ AssignedIn(a, 1, call.before)
          /\ \A j, k \in DOMAIN a : j # k => a[j][1] # a[k][1] /\ a[j][2] # a[k][2]
          /\ st.visited = AssignedIn(a, 1, Len(a))
          /\ explain.pc # "done" => \A k \in DOMAIN a : st.tag[a[k][1]] = a[k][2]

\* every fold of processPlan has run over a plan with a skipped operator, a
\* subquery root that got no identifier, an optimized-out exchange, and a
\* call that came back to operators numbered before and numbered a new one
C23_Witness ==
    /\ explain.pc = "reused"
    /\ explain.i = Len(explain.st.reused)
    /\ explain.optimizedOutExchanges # <<>>
    /\ \E n \in Reached(explain.g, explain.plan) : explain.g[n].kind = "InputAdapter"
    /\ \E c \in DOMAIN explain.st.calls :
          /\ explain.g[explain.st.calls[c].plan].kind = "Subquery"
          /\ explain.st.calls[c].result = explain.st.calls[c].start
    /\ \E c \in DOMAIN explain.st.calls :
          LET call == explain.st.calls[c]
          IN  /\ call.result = call.start + 1
              /\ call.start > 0
              /\ Numbered(explain.g, call.plan)
                   \intersect AssignedIn(explain.st.assigned, 1, call.before) # {}
    /\ \E n \in explain.st.visited : explain.stale[n] # 0 /\ explain.st.tag[n] # explain.stale[n]

=============================================================================
